---------------------------- MODULE Spec2Model ----------------------------
(***************************************************************************)
(* A model of the simulation core of cvdriver: the road streamer of        *)
(* WorldManager (worldgen.js), the NPC traffic of WorldManager, and the    *)
(* fixed-step loop of PhysicsManager (physics.js) with the player Car      *)
(* (npc.js, second Car class).                                             *)
(*                                                                         *)
(* Lengths are integers in 1/90 of a world unit, so that the thirds made   *)
(* by interpolateRoadPoints and the tenths rounded by the segment key are  *)
(* exact.  Angles are integers in units of 10 degrees.                     *)
(***************************************************************************)
EXTENDS Integers, Sequences, FiniteSets, TLC

VARIABLES
    \* ---- WorldManager: road streamer (worldgen.js:28-34) ----
    roadSegments,               \* append-only waypoint buffer
    lastRoad,                   \* last raw schematic point, seed of the next call
    lastGeneratedSegmentCount,
    lastRoadEndPoint,           \* index into roadSegments of the aliased end point, 0 = null
    generatedSegments,          \* set of segment keys
    builds,                     \* artifacts created by addCurvyRoadSegment, in order
    genCalls,                   \* number of generateNewRoadSegments calls so far
    lastAdd,                    \* what the last addCurvyRoadSegment call did
    lastCut,                    \* the last segment cut and built: its end points as built, the end of the one before
    lastGen,                    \* the last generateNewRoadSegments call: seed, walk, what it changed
    \* ---- the player object followed by the world ----
    playerZ,                    \* player.position.z as seen by WorldManager
    \* ---- WorldManager: NPC traffic (worldgen.js:72-79) ----
    npcCars,                    \* the list of {mesh, speed, dir, active, hit, ...}
    nextNpcSpawnZ,              \* z threshold of the next spawn check
    npcHitBonus,                \* _npcHitBonus
    sceneNpcMeshes,             \* number of NPC meshes in the scene
    spawnOutcome,               \* what the last trySpawnNpc call did
    spawnPlaced,                \* how many NPCs the last trySpawnNpc call placed
    npcCar,                     \* an NpcCar object (npc.js:4-198): launched, its body, in the scene
    lastExplode,                \* what the last direct call of car.explode() met: "none", "normal", "exploded"
    coins,                      \* this.coins: how many entries are uncollected and collected, and one coin that is followed
    coinsCollected,             \* this.coinsCollected
    lastCoins,                  \* what the last updateCoins call found and did
    lastHand,                   \* what getLatestHandData returned in the last fixed step of the input specification
    foreignDebris,              \* this._foreignDebris, one record for the pieces of one explosion
    foreignHits,                \* how many foreign bodies the car has exploded
    theNPCCar,                  \* one NPCCar object of npc_car.js
    game,                       \* the Game object: isInitialized, the managers, the inits awaited, the frame loops
    screens,                    \* which of the screens are displayed, and whether the thumbs-up poll is pending
    lastRender,                 \* what the last WorldManager.render did about the road
    now,                        \* performance.now(), in units of 1500 ms
    flight,                     \* when launch() last took effect on npcCar, and the out-of-bounds input of the last call
    npcTicked,                  \* updateNpcCars ran past its dt guard since the last update began
    lastMoves,                  \* <<call, phase before, phase after>> of each NPC the last lifecycle call handled
    \* ---- PhysicsManager (physics.js:8-37) and its Car (npc.js:714-796) ----
    physicsTimeAccumulator,     \* unconsumed time, in 1/120 s
    pc,                         \* "idle", or "loop" inside the while loop of update
    frame,                      \* the last update call: its frameDelta, the accumulator before, the clamped delta, its steps
    lastStep,                   \* the last fixed step: its dt, whether the world was stepped, y and vy before the clamp
    car,                        \* Car: exploded, debris, position
    body,                       \* the rigid body of the car
    resetTimer,                 \* time left of setTimeout(resetAfterExplosion), -1 = none
    worldDebris,                \* debris rigid bodies in the physics world
    justReset,                  \* resetAfterExplosion ran and no fixed step followed yet
    pmNpcs,                     \* PhysicsManager.npcCars with their bodies and launch marks
    carHitCallback,             \* whether setCarHitCallback was called
    \* ---- the inputs of the Car (npc.js:738-751) ----
    analog,                     \* this.analog: steering and throttle, Null or <<tenths>>
    controls,                   \* this.controls: the digital flags
    lastForces,                 \* throttleInput and steerInput of the last _applyInputForces, while the inputs stand
    lastGrip                    \* slip, grip and lateral factor of the last _applyGripAndDrift, while the inputs stand

roadVars == <<roadSegments, lastRoad, lastGeneratedSegmentCount, lastRoadEndPoint,
              generatedSegments, builds, genCalls, lastAdd, lastGen, lastCut>>

npcVars == <<npcCars, nextNpcSpawnZ, npcHitBonus, sceneNpcMeshes, spawnOutcome,
             spawnPlaced, npcCar, lastMoves>>

physVars == <<physicsTimeAccumulator, pc, frame, lastStep, car, body, resetTimer,
              worldDebris, justReset, pmNpcs, carHitCallback>>

driveVars == <<analog, controls, lastForces, lastGrip>>

coinVars == <<coins, coinsCollected, lastCoins>>

foreignVars == <<foreignDebris, foreignHits>>

gameVars == <<game, screens>>

vars == <<roadVars, playerZ, npcVars, physVars, driveVars, npcTicked,
          lastExplode, now, flight, lastRender, coinVars, lastHand,
          foreignVars, theNPCCar, gameVars>>

-----------------------------------------------------------------------------
(* Bounds of the model *)

\* generateNewRoadSegments calls in one behaviour
MaxGenCalls == 3

-----------------------------------------------------------------------------
(* Road streamer: constants of the code, in model units *)

\* generateRoadSchematic: for (let i = 0; i < 20; i++)
SchematicPoints == 20

\* z -= 20
ZStep == 20 * 90

\* this.lastRoadEndPoint.z += 3
EndPointShift == 3 * 90

\* player.position.z < this.lastRoad.z + 400
Lookahead == 400 * 90

\* segmentCount > this.lastGeneratedSegmentCount + 8
CutThreshold == 8

\* The random turn (Math.random() - 0.5) * 3 of one schematic step, drawn from
\* two values: 30 degrees left, 30 degrees right.
TurnDeltas == {-3, 3}

\* Math.sin(angle) * 6 for an angle that is a multiple of 30 degrees.
SinTimes6(angle) ==
    LET a == angle % 36
        half == CASE a \in {0, 18}  -> 0
                  [] a \in {3, 15}  -> 270
                  [] a \in {6, 12}  -> 468
                  [] a = 9          -> 540
                  [] a \in {21, 33} -> -270
                  [] a \in {24, 30} -> -468
                  [] a = 27         -> -540
    IN half

\* A waypoint {x, y, z, angle}; y is always 0.  nan marks a z that is NaN.
Waypoint(x, z, angle) == [x |-> x, z |-> z, angle |-> angle, nan |-> FALSE]

\* a.z < b.z as JavaScript compares numbers: false when either is NaN.
ZLess(a, b) == ~a.nan /\ ~b.nan /\ a.z < b.z

\* a.z === b.z: false when either is NaN.
ZEq(a, b) == ~a.nan /\ ~b.nan /\ a.z = b.z

\* The turn of schematic step i under the walk (odd, even): the random source
\* yields `odd` on odd steps and `even` on even steps.
TurnAt(walk, i) == IF i % 2 = 1 THEN walk[1] ELSE walk[2]

\* The angle after i schematic steps from angle 0: the sum of the turns.
RECURSIVE AngleAfter(_, _)
AngleAfter(walk, i) ==
    IF i = 0 THEN 0 ELSE AngleAfter(walk, i - 1) + TurnAt(walk, i)

\* The sideways offset after i schematic steps: the sum of sin(angle) * 6.
RECURSIVE XAfter(_, _)
XAfter(walk, i) ==
    IF i = 0 THEN 0
    ELSE XAfter(walk, i - 1) + SinTimes6(AngleAfter(walk, i))

\* generateRoadSchematic(initialX, initialY, initialZ, initialAngle = 0):
\* point i of the loop, which has run i times.
generateRoadSchematic(initialX, initialZ, walk) ==
    [i \in 1..SchematicPoints |->
        Waypoint(initialX + XAfter(walk, i), initialZ - i * ZStep,
                 AngleAfter(walk, i))]

\* One interpolated point at t = j / 3 between current and next.
Interpolated(current, next, j) ==
    Waypoint(current.x + ((next.x - current.x) * j) \div 3,
             current.z + ((next.z - current.z) * j) \div 3,
             current.angle + ((next.angle - current.angle) * j) \div 3)

\* interpolateRoadPoints(points, 2): points[1], then for every pair two
\* interpolated points and the pair's second point.
interpolateRoadPoints(points) ==
    IF Len(points) < 2 THEN points
    ELSE [k \in 1..(3 * (Len(points) - 1) + 1) |->
             IF (k - 1) % 3 = 0 THEN points[(k - 1) \div 3 + 1]
             ELSE Interpolated(points[(k - 1) \div 3 + 1],
                               points[(k - 1) \div 3 + 2], (k - 1) % 3)]

\* Math.round(v * 10) for a length v in model units: floor(v / 9 + 1/2).
Round10(v) == (2 * v + 9) \div 18

\* The segment key of addCurvyRoadSegment (worldgen.js:546).
SegmentKey(points) ==
    LET p == points[1]
        q == points[Len(points)]
    IN <<Round10(p.x), IF p.nan THEN 0 ELSE Round10(p.z), p.nan,
         Round10(q.x), IF q.nan THEN 0 ELSE Round10(q.z), q.nan>>

\* The artifacts one build creates.  `throws` is the builder that throws
\* (an error of the scene or of the physics engine), "none" when none does:
\* the builders run in the order mesh, grids, fences, trees, coins.
Artifacts(key, points, throws) ==
    [key    |-> key,
     first  |-> points[1],
     last   |-> points[Len(points)],
     mesh   |-> TRUE,
     grids  |-> TRUE,
     fences |-> throws = "none",
     trees  |-> throws = "none",
     coins  |-> throws = "none"]

\* addCurvyRoadSegment without the generatedSegments.has(segmentKey) return.
addCurvyRoadSegment_NoKeyCheck(points, segs, blds, throws) ==
    IF Len(points) < 2
    THEN [segs |-> segs, blds |-> blds, threw |-> FALSE, present |-> FALSE]
    ELSE LET key == SegmentKey(points)
         IN [segs    |-> segs \cup {key},
             blds    |-> Append(blds, Artifacts(key, points, throws)),
             threw   |-> throws # "none",
             present |-> key \in segs]

\* addCurvyRoadSegment(points, physicsManager): the new generatedSegments and
\* builds, and whether the call threw.
addCurvyRoadSegment(points, segs, blds, throws) ==
    IF Len(points) < 2
    THEN [segs |-> segs, blds |-> blds, threw |-> FALSE, present |-> FALSE]
    ELSE LET key == SegmentKey(points)
         IN IF key \in segs
            THEN [segs |-> segs, blds |-> blds, threw |-> FALSE, present |-> TRUE]
            ELSE [segs    |-> segs \cup {key},
                  blds    |-> Append(blds, Artifacts(key, points, throws)),
                  threw   |-> throws # "none",
                  present |-> FALSE]

\* The fallback waypoint of the catch block: this.lastPlayerZ is never
\* assigned in WorldManager, so fallbackZ = undefined - 50 is NaN.
FallbackWaypoint == [x |-> 0, z |-> 0, angle |-> 0, nan |-> TRUE]

\* The state of the streamer as one record, for the operators below.
Streamer ==
    [roadSegments |-> roadSegments, lastRoad |-> lastRoad,
     lastGeneratedSegmentCount |-> lastGeneratedSegmentCount,
     lastRoadEndPoint |-> lastRoadEndPoint,
     generatedSegments |-> generatedSegments, builds |-> builds,
     lastAdd |-> lastAdd, lastGen |-> lastGen, lastCut |-> lastCut]

\* The element of a singleton set: binds an intermediate result to its value.
TheValue(S) == CHOOSE v \in S : TRUE

\* The part of generateNewRoadSegments after the waypoints were pushed:
\* buffer is roadSegments with the smoothed points, last the schematic's end.
CutAndBuild(s, buffer, last, throws) ==
    LET segmentCount == Len(buffer)
        s1 == [s EXCEPT !.roadSegments = buffer, !.lastRoad = last]
        sliced == SubSeq(buffer, s.lastGeneratedSegmentCount + 1, segmentCount)
        joined == IF s.lastRoadEndPoint # 0
                  THEN <<buffer[s.lastRoadEndPoint]>> \o sliced
                  ELSE sliced
        built(segmentsToProcess, r) ==
            LET added == [key |-> SegmentKey(segmentsToProcess),
                          present |-> r.present,
                          changed |-> r.segs # s.generatedSegments
                                      \/ r.blds # s.builds]
            IN IF r.threw
               THEN [s1 EXCEPT !.generatedSegments = r.segs,
                               !.builds = r.blds,
                               !.lastAdd = added,
                               !.roadSegments = Append(buffer, FallbackWaypoint)]
               ELSE [s1 EXCEPT !.generatedSegments = r.segs,
                               !.builds = r.blds,
                               !.lastAdd = added,
                               !.lastCut =
                                   [made |-> TRUE,
                                    first |-> segmentsToProcess[1],
                                    last |-> segmentsToProcess[
                                                 Len(segmentsToProcess)],
                                    joined |-> s.lastCut.made,
                                    prevLast |-> s.lastCut.last],
                               !.lastRoadEndPoint = segmentCount,
                               !.roadSegments =
                                   [buffer EXCEPT ![segmentCount].z =
                                       @ + EndPointShift],
                               !.lastGeneratedSegmentCount = segmentCount]
    IN IF segmentCount > s.lastGeneratedSegmentCount + CutThreshold
       THEN TheValue({
                IF Len(segmentsToProcess) > 1
                THEN TheValue({built(segmentsToProcess, r) :
                         r \in {addCurvyRoadSegment(segmentsToProcess,
                                     s.generatedSegments, s.builds, throws)}})
                ELSE s1 :
                segmentsToProcess \in
                    {IF Len(joined) > 1 /\ joined[1].x = joined[2].x
                        /\ ZEq(joined[1], joined[2])
                     THEN Tail(joined) ELSE joined}})
       ELSE s1

\* generateNewRoadSegments(x, y, z, physicsManager) on streamer state s.
\* throws = "schematic" is generateRoadSchematic throwing (or returning
\* null, which throws at roadPoints[roadPoints.length - 1]): the catch block
\* alone runs.  The call is also recorded in lastGen: its seed and walk,
\* whether they repeat those of the call before, whether the call built
\* anything, and whether it left all but an appended waypoint alone.
generateNewRoadSegments(s, x, z, walk, throws) ==
    TheValue({
        [r EXCEPT !.lastGen =
            [called |-> TRUE, x |-> x, z |-> z, walk |-> walk,
             repeat |-> s.lastGen.called /\ s.lastGen.x = x
                        /\ s.lastGen.z = z /\ s.lastGen.walk = walk,
             keyPresent |-> r.lastAdd.present
                            /\ Len(r.roadSegments) > Len(s.roadSegments),
             changed |-> r.generatedSegments # s.generatedSegments
                         \/ r.builds # s.builds,
             failed |-> throws = "schematic",
             fallbackOnly |->
                 /\ Len(r.roadSegments) = Len(s.roadSegments) + 1
                 /\ [r EXCEPT !.roadSegments = s.roadSegments] = s]] :
        r \in {IF throws = "schematic"
               THEN [s EXCEPT !.roadSegments = Append(@, FallbackWaypoint)]
               ELSE TheValue({
            TheValue({CutAndBuild(s, buffer, roadPoints[Len(roadPoints)], throws) :
                buffer \in {s.roadSegments \o interpolateRoadPoints(roadPoints)}}) :
            roadPoints \in {generateRoadSchematic(x, z, walk)}})}})


-----------------------------------------------------------------------------
(* Road streamer: initial state and operations *)

\* WorldManager constructor (worldgen.js:28-34); the player starts at z = 0.
RoadInit ==
    /\ roadSegments = <<>>
    /\ lastRoad = Waypoint(0, 0, 0)
    /\ lastGeneratedSegmentCount = 0
    /\ lastRoadEndPoint = 0
    /\ generatedSegments = {}
    /\ builds = <<>>
    /\ genCalls = 0
    /\ lastAdd = [key |-> <<>>, present |-> FALSE, changed |-> FALSE]
    /\ lastCut = [made |-> FALSE, first |-> Waypoint(0, 0, 0),
                  last |-> Waypoint(0, 0, 0), joined |-> FALSE,
                  prevLast |-> Waypoint(0, 0, 0)]
    /\ lastGen = [called |-> FALSE, x |-> 0, z |-> 0, walk |-> <<0, 0>>,
                  repeat |-> FALSE, keyPresent |-> FALSE, changed |-> FALSE,
                  failed |-> FALSE, fallbackOnly |-> FALSE]
    /\ lastRender = [ran |-> FALSE, calls |-> 0, z |-> 0, roadZ |-> 0,
                     failed |-> FALSE, everFailed |-> FALSE]

\* The walks the random source is drawn from: a steady turn on odd steps.
Walks == {<<t, 0>> : t \in TurnDeltas}

\* The builder of addCurvyRoadSegment that throws, if any.
Throws == {"none", "fences"}

\* How far the physics update moved the player toward -z in one frame.
Advances == {0, 250 * 90}

\* The road part of one frame of Game.animate: the player has moved by adv;
\* the first frame seeds the road at the origin (lastRoad.z === 0); then
\* WorldManager.render extends the road when the player is within the
\* lookahead of lastRoad.
RoadFrame(adv, walk, throws) ==
    LET pz == playerZ - adv
        first == lastRoad.z = 0
    IN \E sA \in {IF first
                   THEN generateNewRoadSegments(Streamer, 0, 0, walk, throws)
                   ELSE Streamer} :
       LET trigger == pz < sA.lastRoad.z + Lookahead
           calls == (IF first THEN 1 ELSE 0) + (IF trigger THEN 1 ELSE 0)
       IN \E sB \in {IF trigger
                      THEN generateNewRoadSegments(sA, sA.lastRoad.x,
                                                   sA.lastRoad.z, walk, throws)
                      ELSE sA} :
          /\ genCalls + calls <= MaxGenCalls
          /\ playerZ' = pz
          /\ genCalls' = genCalls + calls
          /\ roadSegments' = sB.roadSegments
          /\ lastRoad' = sB.lastRoad
          /\ lastGeneratedSegmentCount' = sB.lastGeneratedSegmentCount
          /\ lastRoadEndPoint' = sB.lastRoadEndPoint
          /\ generatedSegments' = sB.generatedSegments
          /\ builds' = sB.builds
          /\ lastAdd' = sB.lastAdd
          /\ lastGen' = sB.lastGen
          /\ lastCut' = sB.lastCut
          /\ UNCHANGED <<npcVars, physVars, driveVars, npcTicked, lastExplode, now, flight, lastRender, coinVars, lastHand, foreignVars, theNPCCar, gameVars>>

\* The road part of WorldManager.render(player, car, physicsManager) with
\* the lookahead left out of its condition.
render_NoLookahead(s, pz, walk, throws) ==
    LET due == pz < s.lastRoad.z
    IN [streamer |-> IF due
                     THEN generateNewRoadSegments(s, s.lastRoad.x,
                                                  s.lastRoad.z, walk, throws)
                     ELSE s,
        calls |-> IF due THEN 1 ELSE 0,
        z |-> pz,
        roadZ |-> s.lastRoad.z]

\* The road part of WorldManager.render(player, car, physicsManager) with
\* the player at z = pz: the streamer after it, the number of calls of
\* generateNewRoadSegments it made, and the two values it compared.
render(s, pz, walk, throws) ==
    LET due == pz < s.lastRoad.z + Lookahead
    IN [streamer |-> IF due
                     THEN generateNewRoadSegments(s, s.lastRoad.x,
                                                  s.lastRoad.z, walk, throws)
                     ELSE s,
        calls |-> IF due THEN 1 ELSE 0,
        z |-> pz,
        roadZ |-> s.lastRoad.z]

\* How far the player moves toward -z in one frame: less than one batch.
Strides == {0, 200 * 90, 399 * 90}

\* What fails in the generation of a frame, if anything.
Faults == {"none", "fences", "schematic"}

\* A call of generateNewRoadSegments went through its catch block: the
\* fallback waypoint is the last of roadSegments.
EndedInCatch(s) ==
    Len(s.roadSegments) > 0 /\ s.roadSegments[Len(s.roadSegments)].nan

\* One frame of Game.animate as far as the road goes: the seed call of the
\* first frame (lastRoad.z === 0), the move of the player by the physics
\* update, then WorldManager.render.
RenderFrame(adv, walk, throws) ==
    LET pz == playerZ - adv
        first == lastRoad.z = 0
    IN \E sA \in {IF first
                   THEN generateNewRoadSegments(Streamer, 0, 0, walk, throws)
                   ELSE Streamer} :
       \E r \in {render(sA, pz, walk, throws)} :
          /\ genCalls + (IF first THEN 1 ELSE 0) + r.calls <= MaxGenCalls
          /\ playerZ' = pz
          /\ genCalls' = genCalls + (IF first THEN 1 ELSE 0) + r.calls
          /\ roadSegments' = r.streamer.roadSegments
          /\ lastRoad' = r.streamer.lastRoad
          /\ lastGeneratedSegmentCount' = r.streamer.lastGeneratedSegmentCount
          /\ lastRoadEndPoint' = r.streamer.lastRoadEndPoint
          /\ generatedSegments' = r.streamer.generatedSegments
          /\ builds' = r.streamer.builds
          /\ lastAdd' = r.streamer.lastAdd
          /\ lastGen' = r.streamer.lastGen
          /\ lastCut' = r.streamer.lastCut
          /\ lastRender' =
                 [ran |-> TRUE, calls |-> r.calls, z |-> r.z,
                  roadZ |-> r.roadZ,
                  failed |-> r.calls = 1 /\ EndedInCatch(r.streamer),
                  everFailed |-> \/ lastRender.everFailed
                                 \/ first /\ EndedInCatch(sA)
                                 \/ r.calls = 1 /\ EndedInCatch(r.streamer)]
          /\ UNCHANGED <<npcVars, physVars, driveVars, npcTicked,
                         lastExplode, now, flight, coinVars, lastHand, foreignVars, theNPCCar, gameVars>>

RenderNext ==
    \E adv \in Strides, walk \in Walks, throws \in Faults :
        RenderFrame(adv, walk, throws)

\* Builds kept in one behaviour by repeated calls of the segment builder.
MaxBuilds == 4

\* Sideways nudges of a repeated call's end point: 4/90 of a unit rounds to
\* the same key, 5/90 rounds to the next tenth.
Nudges == {0, 4, 5}

\* A repeated call of addCurvyRoadSegment with the end points of an earlier
\* build, its last point nudged sideways.
AddCurvyRoadSegmentAgain(k, nudge) ==
    LET b == builds[k]
        points == <<b.first, [b.last EXCEPT !.x = @ + nudge]>>
        r == addCurvyRoadSegment(points, generatedSegments, builds, "none")
    IN /\ Len(builds) < MaxBuilds
       /\ generatedSegments' = r.segs
       /\ builds' = r.blds
       /\ lastAdd' = [key |-> SegmentKey(points), present |-> r.present,
                      changed |-> r.segs # generatedSegments \/ r.blds # builds]
       /\ UNCHANGED <<roadSegments, lastRoad, lastGeneratedSegmentCount,
                      lastRoadEndPoint, playerZ, genCalls, lastGen, lastCut,
                      npcVars,
                      physVars, driveVars, npcTicked, lastExplode, now, flight, lastRender, coinVars, lastHand, foreignVars, theNPCCar, gameVars>>

\* generateNewRoadSegments is called again from the seed pose of the last
\* call, the random source giving the same walk again.
GenerateAgain ==
    /\ lastGen.called
    /\ ~lastGen.failed
    /\ genCalls < MaxGenCalls
    /\ \E r \in {generateNewRoadSegments(Streamer, lastGen.x, lastGen.z,
                                           lastGen.walk, "none")} :
          /\ roadSegments' = r.roadSegments
          /\ lastRoad' = r.lastRoad
          /\ lastGeneratedSegmentCount' = r.lastGeneratedSegmentCount
          /\ lastRoadEndPoint' = r.lastRoadEndPoint
          /\ generatedSegments' = r.generatedSegments
          /\ builds' = r.builds
          /\ lastAdd' = r.lastAdd
          /\ lastGen' = r.lastGen
          /\ lastCut' = r.lastCut
    /\ genCalls' = genCalls + 1
    /\ UNCHANGED <<playerZ, npcVars, physVars, driveVars, npcTicked, lastExplode, now, flight, lastRender, coinVars, lastHand, foreignVars, theNPCCar, gameVars>>

\* A frame whose call of generateNewRoadSegments finds generateRoadSchematic
\* failing.  The call is made from the last schematic's end as in animate.
SchematicFails ==
    /\ genCalls < MaxGenCalls
    /\ \E r \in {generateNewRoadSegments(Streamer, lastRoad.x, lastRoad.z,
                                           <<0, 0>>, "schematic")} :
          /\ roadSegments' = r.roadSegments
          /\ lastGen' = r.lastGen
    /\ genCalls' = genCalls + 1
    /\ UNCHANGED <<lastRoad, lastGeneratedSegmentCount, lastRoadEndPoint,
                   generatedSegments, builds, lastAdd, lastCut, playerZ,
                   npcVars,
                   physVars, driveVars, npcTicked, lastExplode, now, flight, lastRender, coinVars, lastHand, foreignVars, theNPCCar, gameVars>>

RoadNext ==
    \/ GenerateAgain
    \/ \E adv \in Advances, walk \in Walks, throws \in Throws :
           RoadFrame(adv, walk, throws)
    \/ \E k \in 1..Len(builds), nudge \in Nudges :
           AddCurvyRoadSegmentAgain(k, nudge)

-----------------------------------------------------------------------------
(* NPC traffic of WorldManager.  Times are integers in tenths of a second,  *)
(* heights in hundredths of a world unit, vertical speeds in tenths of a    *)
(* unit per second.  The horizontal positions of the NPC meshes are not     *)
(* held: what they decide in a frame (which NPC is far behind the player,   *)
(* which is inside the hit radius, which spawn point is too close to        *)
(* another NPC, whether the road reaches the spawn point) is an input of    *)
(* the frame.                                                               *)

\* this.npcMaxCount = 14
npcMaxCount == 14

\* this.npcScoreBonus = 1000
npcScoreBonus == 1000

\* this.npcSpawnZInterval = 70
npcSpawnZInterval == 70 * 90

\* this.nextNpcSpawnZ = -120
NextNpcSpawnZInit == -120 * 90

\* How far the player drives in one behaviour, in world units.
MaxDistance == 500

\* NPCs the player hits in one behaviour.
MaxHits == 2

\* The cap of the time counted since an NPC was hit.
AgeCap == 40

\* dt of a frame: none, 1 s, 4 s.
FrameDeltas == {0, 10, 40}

\* npc.flyDuration = 2.8 + Math.random() * 0.7
FlyDurations == {28, 34}

\* npc.vy = 18 + Math.random() * 6, in tenths of a unit per second
FlyVys == {180, 230}

\* 1 + Math.floor(Math.random() * 3)
ClusterCounts == {1, 3}

\* The record pushed by trySpawnNpc (worldgen.js:921).  The fields set by a
\* hit are undefined until then and held as 0; sinceHit is the update time
\* accumulated since the hit, y the height of the mesh (0.5 at spawn).
NewNpc ==
    [active |-> TRUE, hit |-> FALSE, flyTime |-> 0, flyDuration |-> 0,
     vy |-> 0, y |-> 50, sinceHit |-> 0]

\* The cluster loop of trySpawnNpc without its npcMaxCount break.
RECURSIVE SpawnCluster_NoBreak(_, _, _, _)
SpawnCluster_NoBreak(cars, c, clusterCount, tooClose) ==
    IF c > clusterCount THEN cars
    ELSE IF c \in tooClose
         THEN SpawnCluster_NoBreak(cars, c + 1, clusterCount, tooClose)
         ELSE SpawnCluster_NoBreak(Append(cars, NewNpc), c + 1, clusterCount,
                                   tooClose)

\* The cluster loop of trySpawnNpc from member c on (worldgen.js:885-922):
\* tooClose holds the members whose spawn point is too close to another NPC.
RECURSIVE SpawnCluster(_, _, _, _)
SpawnCluster(cars, c, clusterCount, tooClose) ==
    IF c > clusterCount THEN cars
    ELSE IF Len(cars) >= npcMaxCount THEN cars
    ELSE IF c \in tooClose
         THEN SpawnCluster(cars, c + 1, clusterCount, tooClose)
         ELSE SpawnCluster(Append(cars, NewNpc), c + 1, clusterCount, tooClose)

\* trySpawnNpc(player): the new list, threshold and outcome.
trySpawnNpc(cars, nextZ, pz, roadBasis, clusterCount, tooClose) ==
    IF Len(cars) >= npcMaxCount
    THEN [cars |-> cars, nextZ |-> nextZ, outcome |-> "capped"]
    ELSE IF pz > nextZ
    THEN [cars |-> cars, nextZ |-> nextZ, outcome |-> "notDue"]
    ELSE IF ~roadBasis
    THEN [cars |-> cars, nextZ |-> nextZ - npcSpawnZInterval,
          outcome |-> "noRoad"]
    ELSE [cars |-> SpawnCluster(cars, 1, clusterCount, tooClose),
          nextZ |-> nextZ - npcSpawnZInterval, outcome |-> "spawned"]

\* The smaller of two numbers.
Min(a, b) == IF a < b THEN a ELSE b

\* One iteration of the loop of updateNpcCars (worldgen.js:933-1023) for one
\* NPC: behind says that it is farther than npcDespawnDistance behind the
\* player, near that it is inside the hit radius of the car.  keep is FALSE
\* when the iteration spliced the NPC out of the list; hitNow is TRUE when
\* the iteration was the hit.
StepNpc(npc, dt, behind, near, vyDraw, durDraw) ==
    IF ~npc.active
    THEN [npc |-> [npc EXCEPT !.sinceHit =
                       IF npc.hit THEN Min(@ + dt, AgeCap) ELSE @],
          keep |-> TRUE, hitNow |-> FALSE]
    ELSE IF behind
    THEN [npc |-> npc, keep |-> FALSE, hitNow |-> FALSE]
    ELSE LET hitNow == ~npc.hit /\ near
             flyDuration == IF hitNow THEN durDraw ELSE npc.flyDuration
             flyTime == (IF hitNow THEN 0 ELSE npc.flyTime) + dt
             vy == (IF hitNow THEN vyDraw ELSE npc.vy) - 32 * dt
             y == npc.y + vy * dt
         IN IF npc.hit \/ hitNow
            THEN [npc |-> [active |-> ~hitNow /\ npc.active, hit |-> TRUE,
                           flyTime |-> flyTime, flyDuration |-> flyDuration,
                           vy |-> vy, y |-> y,
                           sinceHit |-> Min(npc.sinceHit + dt, AgeCap)],
                  keep |-> ~(y < -1000 \/ flyTime >= flyDuration),
                  hitNow |-> hitNow]
            ELSE [npc |-> npc, keep |-> TRUE, hitNow |-> FALSE]

\* The index of the oldest active NPC of the list, 0 when there is none.
FirstActive(cars) ==
    IF \E i \in 1..Len(cars) : cars[i].active
    THEN CHOOSE i \in 1..Len(cars) :
             cars[i].active /\ \A j \in 1..(i - 1) : ~cars[j].active
    ELSE 0

\* The entries of a stepped list that were kept.
Kept(e) == e.keep

\* The lifecycle phase of a record of WorldManager.npcCars: a hit record is
\* flying away, a record that is spliced out of the list is removed.
RecordPhase(npc) == IF npc.hit THEN "Launched" ELSE "Cruising"

\* NpcCar constructor (npc.js:5-80): a kinematic body, the group in the scene.
NewNpcCar ==
    [launched |-> FALSE, body |-> "kinematic", inScene |-> TRUE,
     boostedUpOnce |-> FALSE, cleanupAt |-> 0]

\* this._cleanupAt = performance.now() + 4500, in units of 1500 ms
CleanupDelay == 3

\* The last value of the clock.
MaxNow == 6

\* The lifecycle phase of an NpcCar: dispose leaves it without a body.
NpcCarPhase(o) ==
    IF o.body = "none" THEN "Removed"
    ELSE IF o.launched THEN "Launched" ELSE "Cruising"

\* NpcCar.dispose() (npc.js:185-197).
NpcCar_dispose(o) == [o EXCEPT !.body = "none", !.inScene = FALSE]

\* NpcCar.update(delta) (npc.js:86-137).  low: the body is at the ground;
\* timeUp: performance.now() has reached _cleanupAt; outOfBounds: the body
\* is above y = 120 or farther than 600 from the origin.  Without a body
\* the call throws a TypeError at the first use of this.body.
NpcCar_update(o, low, timeUp, outOfBounds) ==
    IF o.body = "none" THEN o
    ELSE IF o.launched
    THEN LET b == IF low THEN [o EXCEPT !.boostedUpOnce = TRUE] ELSE o
         IN IF (b.cleanupAt # 0 /\ timeUp) \/ outOfBounds
            THEN NpcCar_dispose(b)
            ELSE b
    ELSE o

\* NpcCar.launch() that builds a dynamic body for a car that has none.
NpcCar_launch_Rebuilds(o, t) ==
    IF o.launched THEN o
    ELSE [o EXCEPT !.body = "dynamic", !.launched = TRUE,
                   !.boostedUpOnce = FALSE, !.cleanupAt = t + CleanupDelay]

\* NpcCar.launch() without its `if (this.exploded || this.launched) return`.
NpcCar_launch_Again(o, t) ==
    [o EXCEPT !.body = IF @ = "none" THEN "none" ELSE "dynamic",
              !.launched = TRUE,
              !.boostedUpOnce = FALSE, !.cleanupAt = t + CleanupDelay]

\* NpcCar.launch() (npc.js:142-178).  this.exploded is never set.  Without
\* a body the conversion throws inside its try block and the impulses
\* inside theirs; the flags are set all the same.  t is performance.now().
NpcCar_launch(o, t) ==
    IF o.launched THEN o
    ELSE [o EXCEPT !.body = IF @ = "none" THEN "none" ELSE "dynamic",
                   !.launched = TRUE,
                   !.boostedUpOnce = FALSE, !.cleanupAt = t + CleanupDelay]

\* WorldManager constructor (worldgen.js:72-79).
NpcInit ==
    /\ playerZ = 0
    /\ npcCars = <<>>
    /\ nextNpcSpawnZ = NextNpcSpawnZInit
    /\ npcHitBonus = 0
    /\ sceneNpcMeshes = 0
    /\ spawnOutcome = "none"
    /\ spawnPlaced = 0
    /\ npcCar = NewNpcCar
    /\ lastMoves = {}
    /\ npcTicked = FALSE
    /\ now = 1
    /\ flight = [launchedAt |-> 0, lastOut |-> FALSE, threw |-> FALSE]

\* updateNpcCars(player, car, dt).  hitIdx is the NPC inside the hit radius
\* and goneIdx the NPC far behind the player in this frame (0: none).
updateNpcCars(dt, roadBasis, clusterCount, tooClose, hitIdx, goneIdx, vyDraw, durDraw) ==
    IF dt = 0
    THEN UNCHANGED <<npcVars, npcTicked, lastExplode, now, flight, lastRender, coinVars, lastHand, foreignVars, theNPCCar, gameVars>>
    ELSE \E r \in {trySpawnNpc(npcCars, nextNpcSpawnZ, playerZ, roadBasis,
                               clusterCount, tooClose)} :
         \E stepped \in {[i \in 1..Len(r.cars) |->
                             StepNpc(r.cars[i], dt, i = goneIdx, i = hitIdx,
                                     vyDraw, durDraw)]} :
         \E kept \in {SelectSeq(stepped, Kept)} :
            /\ npcCars' = [i \in 1..Len(kept) |-> kept[i].npc]
            /\ nextNpcSpawnZ' = r.nextZ
            /\ spawnOutcome' = r.outcome
            /\ spawnPlaced' = Len(r.cars) - Len(npcCars)
            /\ lastMoves' = {<<"updateNpcCars", RecordPhase(r.cars[i]),
                                IF stepped[i].keep
                                THEN RecordPhase(stepped[i].npc)
                                ELSE "Removed">> : i \in 1..Len(stepped)}
            /\ UNCHANGED npcCar
            /\ npcHitBonus' = npcHitBonus + npcScoreBonus *
                   Cardinality({i \in 1..Len(stepped) : stepped[i].hitNow})
            /\ sceneNpcMeshes' = sceneNpcMeshes
                   + (Len(r.cars) - Len(npcCars))
                   - (Len(stepped) - Len(kept))
            /\ npcTicked' = TRUE

\* The player drives 100 units toward -z between two frames.
PlayerMoves ==
    /\ playerZ - 100 * 90 >= -(MaxDistance * 90)
    /\ playerZ' = playerZ - 100 * 90
    /\ UNCHANGED <<roadVars, npcVars, physVars, driveVars, npcTicked, lastExplode, now, flight, lastRender, coinVars, lastHand, foreignVars, theNPCCar, gameVars>>

\* NpcCar.update(delta) reads this.body without a check: in the launched
\* branch at this.body.translation() (npc.js:91), in the other at
\* this.body.setNextKinematicTranslation (npc.js:132).  With this.body null
\* the read is a TypeError and update throws.
UpdateThrows(o) == o.body = "none"

\* The host calls a method of the NpcCar object.  flight records the time
\* at which a launch took effect, whether the body was out of bounds and
\* whether the call threw.
NpcCarCall(call, o, out) ==
    /\ npcCar' = o
    /\ lastMoves' = {<<call, NpcCarPhase(npcCar), NpcCarPhase(o)>>}
    /\ flight' = [launchedAt |-> IF ~npcCar.launched /\ o.launched
                                 THEN now ELSE flight.launchedAt,
                  lastOut |-> out,
                  threw |-> call = "update" /\ UpdateThrows(npcCar)]
    /\ UNCHANGED <<npcCars, nextNpcSpawnZ, npcHitBonus, sceneNpcMeshes,
                   spawnOutcome, spawnPlaced, roadVars, playerZ, physVars,
                   driveVars, npcTicked, lastExplode, now, lastRender, coinVars, lastHand, foreignVars, theNPCCar, gameVars>>

NpcCarUpdate ==
    \E low \in BOOLEAN, timeUp \in BOOLEAN, outOfBounds \in BOOLEAN :
        NpcCarCall("update", NpcCar_update(npcCar, low, timeUp, outOfBounds),
                   outOfBounds)

NpcCarLaunch == NpcCarCall("launch", NpcCar_launch(npcCar, now), FALSE)

NpcCarDispose == NpcCarCall("dispose", NpcCar_dispose(npcCar), FALSE)

\* performance.now() advances by 1500 ms between two calls.
Tick ==
    /\ now < MaxNow
    /\ now' = now + 1
    /\ lastMoves' = {}
    /\ UNCHANGED <<npcCars, nextNpcSpawnZ, npcHitBonus, sceneNpcMeshes,
                   spawnOutcome, spawnPlaced, npcCar, roadVars, playerZ,
                   physVars, driveVars, npcTicked, lastExplode, flight, lastRender, coinVars, lastHand, foreignVars, theNPCCar, gameVars>>

\* update() of the NpcCar reads the clock: the cleanup is due when
\* performance.now() >= this._cleanupAt.
FlightUpdate ==
    \E low \in BOOLEAN, outOfBounds \in BOOLEAN :
        NpcCarCall("update",
                   NpcCar_update(npcCar, low, now >= npcCar.cleanupAt,
                                 outOfBounds),
                   outOfBounds)

\* A new NpcCar is constructed in place of a disposed one.
FlightRespawn ==
    /\ npcCar.body = "none"
    /\ npcCar' = NewNpcCar
    /\ lastMoves' = {}
    /\ flight' = [launchedAt |-> 0, lastOut |-> FALSE, threw |-> FALSE]
    /\ UNCHANGED <<npcCars, nextNpcSpawnZ, npcHitBonus, sceneNpcMeshes,
                   spawnOutcome, spawnPlaced, roadVars, playerZ, physVars,
                   driveVars, npcTicked, lastExplode, now, lastRender, coinVars, lastHand, foreignVars, theNPCCar, gameVars>>

FlightNext ==
    \/ Tick
    \/ FlightUpdate
    \/ NpcCarLaunch
    \/ NpcCarDispose
    \/ FlightRespawn

\* A frame of one second with a road under the spawn point, in which one
\* NPC is spawned when a spawn is due.  An NPC hit with the smaller upward
\* speed is below y = -10 and spliced out within the frame of the hit.
LifecycleFrame ==
    \E hitIdx \in IF npcHitBonus < MaxHits * npcScoreBonus
                  THEN {0, FirstActive(npcCars)} ELSE {0} :
    \E goneIdx \in {0, FirstActive(npcCars)} :
    \E vyDraw \in IF hitIdx = 0 THEN {180} ELSE FlyVys :
        /\ updateNpcCars(10, TRUE, 1, {}, hitIdx, goneIdx, vyDraw, 28)
        /\ UNCHANGED <<roadVars, playerZ, physVars, driveVars, lastExplode, now, flight, lastRender, coinVars, lastHand, foreignVars, theNPCCar, gameVars>>

LifecycleNext ==
    \/ PlayerMoves
    \/ LifecycleFrame
    \/ NpcCarUpdate
    \/ NpcCarLaunch
    \/ NpcCarDispose

\* The draws of a frame that are not read are held at one value.
NpcNext ==
    \/ PlayerMoves
    \/ \E dt \in FrameDeltas :
       \E roadBasis \in IF dt = 0 THEN {TRUE} ELSE BOOLEAN :
       \E clusterCount \in IF dt = 0 \/ ~roadBasis THEN {1} ELSE ClusterCounts :
       \E tooClose \in IF dt = 0 \/ ~roadBasis THEN {{}} ELSE {{}, {1}} :
       \E hitIdx \in IF dt # 0 /\ npcHitBonus < MaxHits * npcScoreBonus
                     THEN {0, FirstActive(npcCars)} ELSE {0} :
       \E goneIdx \in IF dt # 0 THEN {0, FirstActive(npcCars)} ELSE {0} :
       \E vyDraw \in IF hitIdx = 0 THEN {180} ELSE FlyVys :
       \E durDraw \in IF hitIdx = 0 THEN {28} ELSE FlyDurations :
           /\ updateNpcCars(dt, roadBasis, clusterCount, tooClose, hitIdx,
                            goneIdx, vyDraw, durDraw)
           /\ UNCHANGED <<roadVars, playerZ, physVars, driveVars, lastExplode, now, flight, lastRender, coinVars, lastHand, foreignVars, theNPCCar, gameVars>>

-----------------------------------------------------------------------------
(* PhysicsManager and the player Car.  Times are integers in 1/120 s,       *)
(* heights in halves of a world unit.  What world.step of the physics       *)
(* engine makes of the car body in one step, which collision events it      *)
(* queues and which NPCs are within the collision distance of the car are   *)
(* inputs of the step.                                                      *)

\* this.FIXED_TIMESTEP = 1 / 60
FIXED_TIMESTEP == 2

\* frameDelta = Math.min(frameDelta, 0.25)
MaxFrameDelta == 30

\* setTimeout(() => this.resetAfterExplosion(), 3500)
ResetDelay == 420

\* const count = 12 of Car.explode
DebrisCount == 12

\* NPCs the host registers with the PhysicsManager.
MaxNpcs == 1

\* The cap of the counted carHitCallback invocations per NPC.
MaxCallbacks == 2

NpcIds == 1..MaxNpcs

\* The larger of two numbers.
Max(a, b) == IF a > b THEN a ELSE b

\* The body made by Car._createPhysicsBody (npc.js:805-819): at (0, 2, 0), at
\* rest, not rotated.
StartBody ==
    [xz |-> "origin", y |-> 4, vy |-> 0, vxz |-> "zero", angvel |-> "zero",
     yaw |-> FALSE, tilt |-> FALSE]

\* Car constructor: position = new THREE.Vector3(), exploded = false,
\* debris = [].  zOver says that position.z > 1; timers is the number of
\* pending setTimeout(resetAfterExplosion) timers.
StartCar ==
    [exploded |-> FALSE, debris |-> 0, y |-> 0, zOver |-> FALSE, timers |-> 0]

\* An NPC the PhysicsManager does not know.
NoNpc ==
    [registered |-> FALSE, body |-> "none", launched |-> FALSE,
     launches |-> 0, callbacks |-> 0]

\* What one world.step can make of the car body: fallen below the ground and
\* tumbling; in the air and turned; at rest behind the start line; resting
\* on the ground, turned.
StepOutcomes ==
    { [xz |-> "away", y |-> -1, vy |-> -1, vxz |-> "moving",
       angvel |-> "spinning", yaw |-> TRUE, tilt |-> TRUE, zOver |-> FALSE],
      [xz |-> "away", y |-> 3, vy |-> 1, vxz |-> "moving",
       angvel |-> "zero", yaw |-> TRUE, tilt |-> FALSE, zOver |-> FALSE],
      [xz |-> "away", y |-> 1, vy |-> -1, vxz |-> "moving",
       angvel |-> "zero", yaw |-> FALSE, tilt |-> FALSE, zOver |-> TRUE],
      [xz |-> "away", y |-> 0, vy |-> 0, vxz |-> "zero",
       angvel |-> "zero", yaw |-> TRUE, tilt |-> FALSE, zOver |-> FALSE] }

\* PhysicsManager constructor and init (physics.js:8-56).
PhysInit ==
    /\ physicsTimeAccumulator = 0
    /\ pc = "idle"
    /\ frame = [raw |-> 0, accBefore |-> 0, delta |-> 0, steps |-> 0]
    /\ lastStep = [dt |-> 0, stepped |-> FALSE, clamped |-> FALSE,
                   wrecked |-> FALSE, launched |-> {}, called |-> 0,
                   rawY |-> 0, rawVy |-> 0, trace |-> <<>>]
    /\ car = StartCar
    /\ body = StartBody
    /\ resetTimer = -1
    /\ worldDebris = 0
    /\ justReset = FALSE
    /\ pmNpcs = [n \in NpcIds |-> NoNpc]
    /\ carHitCallback = FALSE
    /\ lastExplode = "none"

\* frameDelta without the Math.min(frameDelta, 0.25) clamp.
ClampDelta_None(frameDelta) == frameDelta

\* frameDelta = Math.min(frameDelta, 0.25)  (physics.js:354)
ClampDelta(frameDelta) == IF frameDelta < MaxFrameDelta THEN frameDelta ELSE MaxFrameDelta

\* Car.update(deltaTime, world, eventQueue) (npc.js:1067-1107): while the
\* car is exploded it returns before stepping the world; otherwise it steps
\* the world, which moves the body to `out`, and copies the body's
\* translation to this.position.
Car_update(c, b, out) ==
    IF c.exploded
    THEN [car |-> c, body |-> b, stepped |-> FALSE, trace |-> <<>>]
    ELSE [car |-> [c EXCEPT !.y = out.y, !.zOver = out.zOver],
          body |-> [xz |-> out.xz, y |-> out.y, vy |-> out.vy,
                    vxz |-> out.vxz, angvel |-> out.angvel,
                    yaw |-> out.yaw, tilt |-> out.tilt],
          stepped |-> TRUE,
          trace |-> <<"applyInputForces", "worldStep", "applyGripAndDrift">>]

\* The y clamp of update with its condition never true.
ClampY_Off(c, b) == [car |-> c, body |-> b, clamped |-> FALSE]

\* The y clamp of update (physics.js:369-380): position and body to y = 0, a
\* downward velocity zeroed, the tilt of the body removed.
ClampY(c, b) ==
    IF c.y <= 0
    THEN [car |-> [c EXCEPT !.y = 0],
          body |-> [b EXCEPT !.y = 0, !.vy = IF @ < 0 THEN 0 ELSE @,
                             !.tilt = FALSE],
          clamped |-> TRUE]
    ELSE [car |-> c, body |-> b, clamped |-> FALSE]

\* The z clamp of update (physics.js:381-388): the body is moved to z = 1 at
\* the height of this.position.
ClampZ(c, b) ==
    IF c.zOver
    THEN [car |-> [c EXCEPT !.zOver = FALSE],
          body |-> [b EXCEPT !.xz = "away", !.y = c.y]]
    ELSE [car |-> c, body |-> b]

\* Car.explode() without its `if (this.exploded) return`.
explode_NoGuard(c, debrisBodies, timer) ==
    [car |-> [c EXCEPT !.exploded = TRUE, !.debris = @ + DebrisCount,
                       !.timers = @ + 1],
     worldDebris |-> debrisBodies + DebrisCount,
     resetTimer |-> ResetDelay]

\* Car.explode() (npc.js:1109-1138): 12 debris pieces are pushed and a
\* reset timer is set.
explode(c, debrisBodies, timer) ==
    IF c.exploded
    THEN [car |-> c, worldDebris |-> debrisBodies, resetTimer |-> timer]
    ELSE [car |-> [c EXCEPT !.exploded = TRUE, !.debris = @ + DebrisCount,
                            !.timers = @ + 1],
          worldDebris |-> debrisBodies + DebrisCount,
          resetTimer |-> ResetDelay]

\* Car.shouldExplodeFromCollision (npc.js:1146-1152): explodeOnAnyCollision
\* is true and minExplodeSpeed is 0.
shouldExplodeFromCollision(c) == ~c.exploded

\* PhysicsManager.handleCollisions (physics.js:313-336): collision says that
\* the queue holds a started event of the car's collider.
handleCollisions(c, debrisBodies, timer, collision) ==
    IF collision /\ shouldExplodeFromCollision(c)
    THEN explode(c, debrisBodies, timer)
    ELSE [car |-> c, worldDebris |-> debrisBodies, resetTimer |-> timer]

\* Car.resetAfterExplosion without the removal of the debris.
resetAfterExplosion_KeepDebris(c, b, debrisBodies) ==
    [car |-> [c EXCEPT !.exploded = FALSE],
     body |-> [b EXCEPT !.xz = "origin", !.y = 1, !.vy = 0, !.vxz = "zero",
                        !.angvel = "zero"],
     worldDebris |-> debrisBodies]

\* Car.resetAfterExplosion() (npc.js:1154-1170): the debris bodies leave the
\* world, the body is put at (0, 0.5, 0) with zero velocities; the rotation
\* of the body and this.position are not written.
resetAfterExplosion(c, b, debrisBodies) ==
    [car |-> [c EXCEPT !.exploded = FALSE, !.debris = 0],
     body |-> [b EXCEPT !.xz = "origin", !.y = 1, !.vy = 0, !.vxz = "zero",
                        !.angvel = "zero"],
     worldDebris |-> debrisBodies - c.debris]

\* PhysicsManager.launchNpcCar (physics.js:207-261).
launchNpcCar(npc) ==
    IF npc.body = "none" \/ npc.launched THEN npc
    ELSE [npc EXCEPT !.launched = TRUE, !.body = "dynamic", !.launches = @ + 1]

\* PhysicsManager.checkNpcCollisions (physics.js:177-205): near holds the
\* NPCs whose mesh is within the collision distance of the car.
checkNpcCollisions(npcs, near, callback) ==
    [n \in NpcIds |->
        IF n \in near /\ npcs[n].registered /\ ~npcs[n].launched
        THEN [launchNpcCar(npcs[n]) EXCEPT !.callbacks =
                 IF callback THEN Min(@ + 1, MaxCallbacks) ELSE @]
        ELSE npcs[n]]

\* The calls of one pass of the loop with the collision resolution moved
\* before Car.update.
StepTrace_CollisionsFirst(carTrace) ==
    <<"processInput", "checkNpcCollisions", "handleCollisions">> \o carTrace
        \o <<"clampY", "clampZ", "checkObstacleCollision">>

\* The calls of one pass of the loop of update, in the order of the code
\* (physics.js:358-398); carTrace holds the calls made inside Car.update.
StepTrace(carTrace) ==
    <<"processInput">> \o carTrace
        \o <<"checkNpcCollisions", "clampY", "clampZ", "handleCollisions",
             "checkObstacleCollision">>

\* The head of PhysicsManager.update(frameDelta) (physics.js:350-355).
\* frameDelta is the time since the previous frame, so the pending reset
\* timer has run that long; a timer that is due fires before the frame.
UpdateBegin(frameDelta) ==
    /\ pc = "idle"
    /\ resetTimer # 0
    /\ physicsTimeAccumulator' = physicsTimeAccumulator + ClampDelta(frameDelta)
    /\ frame' = [raw |-> frameDelta, accBefore |-> physicsTimeAccumulator,
                 delta |-> ClampDelta(frameDelta), steps |-> 0]
    /\ resetTimer' = IF resetTimer > 0 THEN Max(resetTimer - frameDelta, 0)
                     ELSE resetTimer
    /\ pc' = "loop"
    /\ npcTicked' = FALSE
    /\ UNCHANGED <<lastStep, car, body, worldDebris, justReset, pmNpcs,
                   carHitCallback, roadVars, playerZ, npcVars, driveVars, lastExplode, now, flight, lastRender, coinVars, lastHand, foreignVars, theNPCCar, gameVars>>

\* One pass of the while loop of update (physics.js:358-398).  processInput
\* reads no hand data and checkObstacleCollision finds no obstacle mesh.
FixedStep(out, collision, near) ==
    /\ pc = "loop"
    /\ physicsTimeAccumulator >= FIXED_TIMESTEP
    /\ \E u \in {Car_update(car, body, out)} :
       \E cy \in {ClampY(u.car, u.body)} :
       \E cz \in {ClampZ(cy.car, cy.body)} :
       \E h \in {handleCollisions(cz.car, worldDebris, resetTimer,
                                  collision /\ u.stepped)} :
          /\ car' = h.car
          /\ body' = cz.body
          /\ worldDebris' = h.worldDebris
          /\ resetTimer' = h.resetTimer
          /\ lastStep' = [dt |-> FIXED_TIMESTEP, stepped |-> u.stepped,
                          wrecked |-> car.exploded,
                          launched |-> {n \in near :
                              ~pmNpcs[n].launched
                              /\ launchNpcCar(pmNpcs[n]).launched},
                          called |-> IF carHitCallback
                                     THEN Cardinality({n \in near :
                                              /\ pmNpcs[n].registered
                                              /\ ~pmNpcs[n].launched})
                                     ELSE 0,
                          clamped |-> cy.clamped, rawY |-> u.car.y,
                          rawVy |-> u.body.vy, trace |-> StepTrace(u.trace)]
    /\ pmNpcs' = checkNpcCollisions(pmNpcs, near, carHitCallback)
    /\ physicsTimeAccumulator' = physicsTimeAccumulator - FIXED_TIMESTEP
    /\ frame' = [frame EXCEPT !.steps = @ + 1]
    /\ justReset' = FALSE
    /\ UNCHANGED <<pc, carHitCallback, roadVars, playerZ, npcVars, driveVars, npcTicked, lastExplode, now, flight, lastRender, coinVars, lastHand, foreignVars, theNPCCar, gameVars>>

\* The while condition of update fails: update returns.
UpdateEnd ==
    /\ pc = "loop"
    /\ physicsTimeAccumulator < FIXED_TIMESTEP
    /\ pc' = "idle"
    /\ UNCHANGED <<physicsTimeAccumulator, frame, lastStep, car, body,
                   resetTimer, worldDebris, justReset, pmNpcs, carHitCallback,
                   roadVars, playerZ, npcVars, driveVars, npcTicked, lastExplode, now, flight, lastRender, coinVars, lastHand, foreignVars, theNPCCar, gameVars>>

\* The timer set by Car.explode fires between two frames.
ResetFires ==
    /\ pc = "idle"
    /\ resetTimer = 0
    /\ \E r \in {resetAfterExplosion(car, body, worldDebris)} :
          /\ car' = [r.car EXCEPT !.timers = @ - 1]
          /\ body' = r.body
          /\ worldDebris' = r.worldDebris
    /\ resetTimer' = IF car.timers > 1 THEN ResetDelay ELSE -1
    /\ justReset' = TRUE
    /\ UNCHANGED <<physicsTimeAccumulator, pc, frame, lastStep, pmNpcs,
                   carHitCallback, roadVars, playerZ, npcVars, driveVars, npcTicked, lastExplode, now, flight, lastRender, coinVars, lastHand, foreignVars, theNPCCar, gameVars>>

\* car.explode() is called directly, between two frames.
DirectExplode ==
    /\ pc = "idle"
    /\ resetTimer # 0
    /\ \E r \in {explode(car, worldDebris, resetTimer)} :
          /\ car' = r.car
          /\ worldDebris' = r.worldDebris
          /\ resetTimer' = r.resetTimer
    /\ lastExplode' = IF car.exploded THEN "exploded" ELSE "normal"
    /\ UNCHANGED <<physicsTimeAccumulator, pc, frame, lastStep, body,
                   justReset, pmNpcs, carHitCallback, roadVars, playerZ,
                   npcVars, driveVars, npcTicked, now, flight, lastRender, coinVars, lastHand, foreignVars, theNPCCar, gameVars>>

\* The host calls setCarHitCallback (physics.js:172-174).
SetCarHitCallback ==
    /\ pc = "idle"
    /\ ~carHitCallback
    /\ carHitCallback' = TRUE
    /\ UNCHANGED <<physicsTimeAccumulator, pc, frame, lastStep, car, body,
                   resetTimer, worldDebris, justReset, pmNpcs, roadVars,
                   playerZ, npcVars, driveVars, npcTicked, lastExplode, now, flight, lastRender, coinVars, lastHand, foreignVars, theNPCCar, gameVars>>

\* The host registers NPC n, which has a mesh (registerNpcCars,
\* physics.js:167-169), after the callback was set; withBody says that it
\* called createNpcCarBody (physics.js:59-95) for it.  Nothing in the
\* repository calls removeNpcCarBody, and no operation here does.
RegisterNpcCar(n, withBody) ==
    /\ pc = "idle"
    /\ carHitCallback
    /\ ~pmNpcs[n].registered
    /\ pmNpcs' = [pmNpcs EXCEPT ![n] =
                     [NoNpc EXCEPT !.registered = TRUE,
                                   !.body = IF withBody THEN "kinematic"
                                            ELSE "none"]]
    /\ UNCHANGED <<physicsTimeAccumulator, pc, frame, lastStep, car, body,
                   resetTimer, worldDebris, justReset, carHitCallback,
                   roadVars, playerZ, npcVars, driveVars, npcTicked, lastExplode, now, flight, lastRender, coinVars, lastHand, foreignVars, theNPCCar, gameVars>>

\* The frame deltas of the specifications, in 1/120 s.
ClockDeltas == {0, 1, 3, 30, 40}

CrashDeltas == {30}

\* The step outcome of the launch specification: at rest on the ground.
RestOutcome == CHOOSE out \in StepOutcomes : out.vxz = "zero"

\* The registered NPCs.
Registered == {n \in NpcIds : pmNpcs[n].registered}

ClockNext ==
    \/ \E frameDelta \in ClockDeltas : UpdateBegin(frameDelta)
    \/ \E out \in StepOutcomes : FixedStep(out, FALSE, {})
    \/ UpdateEnd

CrashStep ==
    \E out \in StepOutcomes :
    \E collision \in IF car.exploded THEN {FALSE} ELSE BOOLEAN :
        FixedStep(out, collision, {})

CrashFrame == \E frameDelta \in CrashDeltas : UpdateBegin(frameDelta)

CrashNext == CrashFrame \/ CrashStep \/ UpdateEnd \/ ResetFires

ExplodeNext ==
    \/ CrashNext
    \/ DirectExplode

\* Game.animate (part_001:35-46) as far as the physics and the NPCs go:
\* physicsManager.update(frameDelta), then worldManager.render(player, car,
\* physicsManager).  update returns to animate, which goes on to render.
AnimateUpdateEnd ==
    /\ pc = "loop"
    /\ physicsTimeAccumulator < FIXED_TIMESTEP
    /\ pc' = "render"
    /\ UNCHANGED <<physicsTimeAccumulator, frame, lastStep, car, body,
                   resetTimer, worldDebris, justReset, pmNpcs, carHitCallback,
                   roadVars, playerZ, npcVars, driveVars, npcTicked, lastExplode, now, flight, lastRender, coinVars, lastHand, foreignVars, theNPCCar, gameVars>>

\* render is called without its fourth argument: frameDelta = 0 is passed
\* on to updateNpcCars (worldgen.js:711, 736).
AnimateRender ==
    /\ pc = "render"
    /\ pc' = "idle"
    /\ updateNpcCars(0, TRUE, 1, {}, 0, 0, 180, 28)
    /\ UNCHANGED <<physicsTimeAccumulator, frame, lastStep, car, body,
                   resetTimer, worldDebris, justReset, pmNpcs, carHitCallback,
                   roadVars, playerZ, driveVars, lastExplode, now, flight, lastRender, coinVars, lastHand, foreignVars, theNPCCar, gameVars>>

AnimateNext ==
    \/ \E frameDelta \in ClockDeltas : UpdateBegin(frameDelta)
    \/ \E out \in StepOutcomes : FixedStep(out, FALSE, {})
    \/ AnimateUpdateEnd
    \/ AnimateRender

LaunchStep ==
    \E out \in {RestOutcome} :
    \E collision \in IF car.exploded THEN {FALSE} ELSE BOOLEAN :
    \E near \in SUBSET Registered :
        FixedStep(out, collision, near)

LaunchNext ==
    \/ CrashFrame
    \/ LaunchStep
    \/ UpdateEnd
    \/ ResetFires
    \/ SetCarHitCallback
    \/ \E n \in NpcIds, withBody \in BOOLEAN : RegisterNpcCar(n, withBody)

-----------------------------------------------------------------------------
(* The inputs of the Car and what _applyInputForces and _applyGripAndDrift  *)
(* make of them.  Analog values and the inputs derived from them are in     *)
(* tenths, slip is in hundredths, grip in 1/10000 and deltaTime in 1/120 s. *)
(* The body's velocity, from which _applyGripAndDrift takes speed and slip, *)
(* is an input of the call.  lastForces and lastGrip hold the locals of the *)
(* last call and are dropped when a control changes.                        *)

\* this.baseGrip = 2.0
baseGrip == 2

\* this.maxGrip = 7.0
maxGrip == 7

\* this.driftGripMultiplier = 0.3, in tenths
driftGripMultiplier == 3

\* this.driftSlipThreshold = 0.25, in hundredths
driftSlipThreshold == 25

\* grip *= 0.7, in tenths
DriftGripFactor == 7

\* The unit of grip: hundredths of slip times two factors in tenths.
GripScale == 100 * 10 * 10

\* The unit of bleed and of the lateral factor: grip times 1/120 s.
BleedScale == GripScale * 120

\* An analog value that is null.
Null == <<>>

\* The flags of this.controls.
Keys == {"forward", "backward", "left", "right", "handbrake"}

\* The analog values given to setAnalogControls: null, below the range of
\* steering and throttle, inside and above.
AnalogValues == {Null, <<-15>>, <<5>>, <<15>>}

\* The slips and deltaTimes of _applyGripAndDrift: FIXED_TIMESTEP and the
\* largest frame delta.
Slips == {0, 10, 25, 26, 60, 100}

DriftDeltas == {2, 30}

NoForces == [applied |-> FALSE, throttleInput |-> 0, steerInput |-> 0]

NoGrip == [applied |-> FALSE, slip |-> 0, dt |-> 0, grip |-> 0, factor |-> 0]

\* Car constructor (npc.js:738-751).
DriveInit ==
    /\ analog = [steering |-> Null, throttle |-> Null]
    /\ controls = [k \in Keys |-> FALSE]
    /\ lastForces = NoForces
    /\ lastGrip = NoGrip
    /\ lastHand = "none"

\* Math.max(lo, Math.min(hi, v))
Clamp(lo, hi, v) == Max(lo, Min(hi, v))

\* throttleInput with the digital flags added to the analog value.
throttleInput_DigitalToo(a, c) ==
    (IF a.throttle # Null THEN Clamp(0, 10, a.throttle[1]) ELSE 0)
        + (IF c.forward THEN 10 ELSE 0) - (IF c.backward THEN 10 ELSE 0)

\* throttleInput of _applyInputForces (npc.js:979-985).
throttleInput(a, c) ==
    IF a.throttle # Null
    THEN Clamp(0, 10, a.throttle[1])
    ELSE (IF c.forward THEN 10 ELSE 0) - (IF c.backward THEN 10 ELSE 0)

\* steerInput of _applyInputForces (npc.js:992-998).
steerInput(a, c) ==
    IF a.steering # Null
    THEN Clamp(-10, 10, a.steering[1])
    ELSE (IF c.left THEN 10 ELSE 0) - (IF c.right THEN 10 ELSE 0)

\* THREE.MathUtils.lerp(x, y, t) = (1 - t) * x + t * y, t in hundredths and
\* the result in hundredths.
lerp(x, y, t) == (100 - t) * x + t * y

\* grip with the drift factor above 1.
grip_DriftGains(slip, handbrake) ==
    lerp(maxGrip, baseGrip, slip)
        * (IF slip > driftSlipThreshold THEN 10 + DriftGripFactor ELSE 10)
        * (IF handbrake THEN driftGripMultiplier ELSE 10)

\* grip of _applyGripAndDrift (npc.js:1048-1050).
grip(slip, handbrake) ==
    lerp(maxGrip, baseGrip, slip)
        * (IF slip > driftSlipThreshold THEN DriftGripFactor ELSE 10)
        * (IF handbrake THEN driftGripMultiplier ELSE 10)

\* bleed = Math.min(1, grip * deltaTime)  (npc.js:1052)
bleed(g, deltaTime) == Min(BleedScale, g * deltaTime)

\* The keydown listener of setupControls (npc.js:909-938).
KeyDown(k) ==
    /\ ~controls[k]
    /\ controls' = [controls EXCEPT ![k] = TRUE]
    /\ lastForces' = NoForces
    /\ lastGrip' = NoGrip
    /\ UNCHANGED <<analog, roadVars, playerZ, npcVars, physVars, npcTicked, lastExplode, now, flight, lastRender, coinVars, lastHand, foreignVars, theNPCCar, gameVars>>

\* The keyup listener of setupControls (npc.js:940-968).
KeyUp(k) ==
    /\ controls[k]
    /\ controls' = [controls EXCEPT ![k] = FALSE]
    /\ lastForces' = NoForces
    /\ lastGrip' = NoGrip
    /\ UNCHANGED <<analog, roadVars, playerZ, npcVars, physVars, npcTicked, lastExplode, now, flight, lastRender, coinVars, lastHand, foreignVars, theNPCCar, gameVars>>

\* setAnalogControls(steering, throttle) (npc.js:1023-1026).
setAnalogControls(steering, throttle) ==
    /\ analog' = [steering |-> steering, throttle |-> throttle]
    /\ lastForces' = NoForces
    /\ UNCHANGED <<controls, lastGrip, roadVars, playerZ, npcVars, physVars, npcTicked, lastExplode, now, flight, lastRender, coinVars, lastHand, foreignVars, theNPCCar, gameVars>>

\* _applyInputForces(deltaTime) (npc.js:971-1020), as far as the inputs go.
ApplyInputForces ==
    /\ lastForces' = [applied |-> TRUE,
                      throttleInput |-> throttleInput(analog, controls),
                      steerInput |-> steerInput(analog, controls)]
    /\ UNCHANGED <<analog, controls, lastGrip, roadVars, playerZ, npcVars,
                   physVars, npcTicked, lastExplode, now, flight, lastRender, coinVars, lastHand, foreignVars, theNPCCar, gameVars>>

\* _applyGripAndDrift(deltaTime) (npc.js:1028-1065): slow says that the
\* speed of the body is below 0.05; slip is lateralMag / speed.
ApplyGripAndDrift(slow, slip, deltaTime) ==
    /\ lastGrip' =
           IF slow THEN NoGrip
           ELSE LET g == grip(slip, controls.handbrake)
                IN [applied |-> TRUE, slip |-> slip, dt |-> deltaTime,
                    grip |-> g, factor |-> BleedScale - bleed(g, deltaTime)]
    /\ UNCHANGED <<analog, controls, lastForces, roadVars, playerZ, npcVars,
                   physVars, npcTicked, lastExplode, now, flight, lastRender, coinVars, lastHand, foreignVars, theNPCCar, gameVars>>

\* What getLatestHandData returns: null, a record without r, or a record
\* with theta and r.  theta and r are given after the filter, in tenths of
\* maxThetaDeg and of the throttle range above minRForThrottle.
Hands == {Null,
          [theta |-> <<5>>, r |-> Null],
          [theta |-> <<-15>>, r |-> <<5>>],
          [theta |-> <<5>>, r |-> <<15>>]}

\* Whether the hand data carries both values.
HandKind(hand) ==
    IF hand = Null THEN "null"
    ELSE IF hand.theta = Null \/ hand.r = Null THEN "partial"
    ELSE "full"

\* PhysicsManager.processInput() (physics.js:290-311): the analog values of
\* the car after it.  Without complete hand data nothing is written.
processInput(a, hand) ==
    IF HandKind(hand) = "full"
    THEN [steering |-> <<Clamp(-10, 10, hand.theta[1])>>,
          throttle |-> <<Clamp(0, 10, hand.r[1])>>]
    ELSE a

\* One fixed step of an intact car as far as the inputs go: processInput,
\* then _applyInputForces inside Car.update.
InputStep(hand) ==
    \E a \in {processInput(analog, hand)} :
        /\ analog' = a
        /\ lastHand' = HandKind(hand)
        /\ lastForces' = [applied |-> TRUE,
                          throttleInput |-> throttleInput(a, controls),
                          steerInput |-> steerInput(a, controls)]
        /\ UNCHANGED <<controls, lastGrip, roadVars, playerZ, npcVars,
                       physVars, npcTicked, lastExplode, now, flight,
                       lastRender, coinVars, foreignVars, theNPCCar, gameVars>>

InputNext ==
    \/ \E k \in Keys : KeyDown(k)
    \/ \E k \in Keys : KeyUp(k)
    \/ \E hand \in Hands : InputStep(hand)

DriveNext ==
    \/ \E k \in Keys : KeyDown(k)
    \/ \E k \in Keys : KeyUp(k)
    \/ \E steering \in AnalogValues, throttle \in AnalogValues :
           setAnalogControls(steering, throttle)
    \/ ApplyInputForces
    \/ \E slow \in BOOLEAN :
       \E slip \in IF slow THEN {0} ELSE Slips :
       \E deltaTime \in DriftDeltas :
           ApplyGripAndDrift(slow, slip, deltaTime)

-----------------------------------------------------------------------------
(* Coins of WorldManager.  One coin of the first cluster is followed by     *)
(* name; the other entries of this.coins are counted.                       *)

\* if (this.coins.length > 200)
PruneLimit == 200

\* Coins created in one behaviour.
MaxCoinsMade == 204

\* The coins one road build adds: one cluster of three, or many clusters.
ClusterSizes == {3, 99}

\* How many other uncollected coins are within the collect radius.
NearCounts == {0, 2}

\* this.coins = [] and this.coinsCollected = 0 (worldgen.js:49, 66).
\* coins.pruned counts the collected entries filtered out of the array.
CoinInit ==
    /\ coins = [loose |-> 0, taken |-> 0, tracked |-> "absent", pruned |-> 0]
    /\ coinsCollected = 0
    /\ lastCoins = [ran |-> FALSE, before |-> "absent", near |-> FALSE,
                    hits |-> 0, delta |-> 0, popups |-> 0, pruned |-> FALSE]

\* this.coins.length
CoinsLength(c) ==
    c.loose + c.taken + (IF c.tracked \in {"loose", "taken"} THEN 1 ELSE 0)

\* updateCoins(car) without `if (coin.collected) continue`.
updateCoins_NoSkip(c, count, nearTracked, nearOthers) ==
    IF CoinsLength(c) = 0
    THEN [coins |-> c, coinsCollected |-> count, popups |-> 0]
    ELSE LET hitT == nearTracked /\ c.tracked \in {"loose", "taken"}
             n == nearOthers + (IF hitT THEN 1 ELSE 0)
             c1 == [c EXCEPT !.loose = @ - nearOthers,
                             !.taken = @ + nearOthers,
                             !.tracked = IF hitT THEN "taken" ELSE @]
         IN [coins |-> IF CoinsLength(c1) > PruneLimit
                       THEN [c1 EXCEPT !.taken = 0,
                                       !.pruned = @ + c1.taken,
                                       !.tracked = IF @ = "taken"
                                                   THEN "pruned" ELSE @]
                       ELSE c1,
             coinsCollected |-> count + n,
             popups |-> n]

\* updateCoins(car) with a car: nearTracked says that the followed coin is
\* within the collect radius, nearOthers how many other uncollected coins
\* are.  Every coin found uncollected within the radius is marked, adds one
\* to coinsCollected and posts one popup; then the array is filtered when
\* it has more than 200 entries.
updateCoins(c, count, nearTracked, nearOthers) ==
    IF CoinsLength(c) = 0
    THEN [coins |-> c, coinsCollected |-> count, popups |-> 0]
    ELSE LET hitT == nearTracked /\ c.tracked = "loose"
             n == nearOthers + (IF hitT THEN 1 ELSE 0)
             c1 == [c EXCEPT !.loose = @ - nearOthers,
                             !.taken = @ + nearOthers,
                             !.tracked = IF hitT THEN "taken" ELSE @]
         IN [coins |-> IF CoinsLength(c1) > PruneLimit
                       THEN [c1 EXCEPT !.taken = 0,
                                       !.pruned = @ + c1.taken,
                                       !.tracked = IF @ = "taken"
                                                   THEN "pruned" ELSE @]
                       ELSE c1,
             coinsCollected |-> count + n,
             popups |-> n]

\* generateCoinClusters: a road build adds n coins through createCoin; the
\* first coin ever created is the one followed.
CreateCoins(n) ==
    /\ CoinsLength(coins) + coins.pruned
         + (IF coins.tracked = "pruned" THEN 1 ELSE 0) + n <= MaxCoinsMade
    /\ coins' = IF coins.tracked = "absent"
                THEN [coins EXCEPT !.tracked = "loose", !.loose = @ + n - 1]
                ELSE [coins EXCEPT !.loose = @ + n]
    /\ UNCHANGED <<coinsCollected, lastCoins, lastHand, foreignVars, theNPCCar, gameVars>>
    /\ UNCHANGED <<roadVars, playerZ, npcVars, physVars, driveVars,
                   npcTicked, lastExplode, now, flight, lastRender, lastHand, foreignVars, theNPCCar, gameVars>>

\* The updateCoins(car) call of one frame.
CoinFrame(nearTracked, nearOthers) ==
    /\ nearOthers <= coins.loose
    /\ nearTracked => coins.tracked \in {"loose", "taken"}
    /\ \E r \in {updateCoins(coins, coinsCollected, nearTracked, nearOthers)} :
          /\ coins' = r.coins
          /\ coinsCollected' = r.coinsCollected
          /\ lastCoins' = [ran |-> TRUE, before |-> coins.tracked,
                           near |-> nearTracked, hits |-> nearOthers,
                           delta |-> r.coinsCollected - coinsCollected,
                           popups |-> r.popups,
                           pruned |-> r.coins.pruned > coins.pruned]
    /\ UNCHANGED <<roadVars, playerZ, npcVars, physVars, driveVars,
                   npcTicked, lastExplode, now, flight, lastRender, lastHand, foreignVars, theNPCCar, gameVars>>

CoinNext ==
    \/ \E n \in ClusterSizes : CreateCoins(n)
    \/ \E nearTracked \in BOOLEAN, nearOthers \in NearCounts :
           CoinFrame(nearTracked, nearOthers)

-----------------------------------------------------------------------------
(* The pool of foreign debris of the PhysicsManager of part_004.  The       *)
(* pieces of one explosion are one record: their age in units of 4000 ms,   *)
(* how many of their entries have a body in the world (live) and how many   *)
(* have a body that was removed from the world (dead).                      *)

\* Foreign bodies exploded in one behaviour.
MaxForeignHits == 3

\* pieceCount = 14 + Math.floor(Math.random() * 6): the least and the most.
PieceCounts == {14, 19}

\* lifeMs = 8000 + Math.random() * 4000: no piece expires before age 2,
\* every piece has expired at age 3.
FirstExpiryAge == 2

LastExpiryAge == 3

\* this._foreignDebris = [] (part_004:192).
ForeignInit ==
    /\ foreignDebris = <<>>
    /\ foreignHits = 0

\* What the car touches in a fixed step: nothing, a body that is not in
\* the pool (an NPC car), or a piece of the pool whose body is in the world.
ForeignContacts ==
    {[kind |-> "none", batch |-> 0], [kind |-> "other", batch |-> 0]}
        \cup {[kind |-> "piece", batch |-> b] :
                 b \in {k \in 1..Len(foreignDebris) :
                           foreignDebris[k].live > 0}}

\* _explodeForeignBody(body) (part_004:404-433) for the body of contact c:
\* world.removeRigidBody(body), then pieceCount new entries are pushed.
\* The entry of a piece that is exploded stays in the pool.
explodeForeignBody(pool, c, pieceCount) ==
    LET removed == IF c.kind = "piece"
                   THEN [pool EXCEPT ![c.batch].live = @ - 1,
                                     ![c.batch].dead = @ + 1]
                   ELSE pool
    IN Append(removed, [age |-> 0, live |-> pieceCount, dead |-> 0])

\* Whether the entries of batch b have expired: `early` is the draw of the
\* lifetimes of a batch between the least and the largest lifetime.
Expired(b, early) ==
    b.age >= LastExpiryAge \/ (b.age >= FirstExpiryAge /\ early)

\* _cleanupForeignDebris() (part_004:385-402): from the last entry to the
\* first, an expired entry is removed from the world and spliced out, any
\* other entry has its body read.  The read of a body that was removed
\* from the world may throw; then the entries before it are not visited.
RECURSIVE cleanupForeignDebris(_, _, _)
cleanupForeignDebris(pool, early, readThrows) ==
    IF pool = <<>> THEN <<>>
    ELSE LET b == pool[Len(pool)]
             front == SubSeq(pool, 1, Len(pool) - 1)
         IN IF Expired(b, early)
            THEN cleanupForeignDebris(front, early, readThrows)
            ELSE IF b.dead > 0 /\ readThrows
            THEN pool
            ELSE Append(cleanupForeignDebris(front, early, readThrows), b)

\* The collision handling and the sweep of one fixed step of update
\* (part_004:293-312, 362).
ForeignStep(c, pieceCount, early, readThrows) ==
    /\ c.kind # "none" => foreignHits < MaxForeignHits
    /\ \E hit \in {IF c.kind = "none" THEN foreignDebris
                     ELSE explodeForeignBody(foreignDebris, c, pieceCount)} :
          foreignDebris' = cleanupForeignDebris(hit, early, readThrows)
    /\ foreignHits' = foreignHits + (IF c.kind = "none" THEN 0 ELSE 1)
    /\ UNCHANGED <<roadVars, playerZ, npcVars, physVars, driveVars,
                   npcTicked, lastExplode, now, flight, lastRender, coinVars,
                   lastHand, theNPCCar, gameVars>>

\* 4000 ms pass.
ForeignAges ==
    /\ \E k \in 1..Len(foreignDebris) : foreignDebris[k].age < LastExpiryAge
    /\ foreignDebris' = [k \in 1..Len(foreignDebris) |->
                            [foreignDebris[k] EXCEPT !.age =
                                Min(@ + 1, LastExpiryAge)]]
    /\ UNCHANGED <<foreignHits, roadVars, playerZ, npcVars, physVars,
                   driveVars, npcTicked, lastExplode, now, flight, lastRender,
                   coinVars, lastHand, theNPCCar, gameVars>>

ForeignNext ==
    \/ ForeignAges
    \/ \E c \in ForeignContacts, pieceCount \in PieceCounts :
       \E early \in BOOLEAN, readThrows \in BOOLEAN :
           ForeignStep(c, pieceCount, early, readThrows)

-----------------------------------------------------------------------------
(* The NPCCar of npc_car.js.  Times are in seconds.  removals counts the    *)
(* calls of world.removeRigidBody(this.body).                               *)

\* this.maxLifeTime = options.maxLifeTime || 60
maxLifeTime == 60

\* this.debrisLifetime = 4
debrisLifetime == 4

\* const pieceCount = 8
NPCCarPieces == 8

\* The dt of the update calls.
NPCCarDeltas == {1, 3}

\* NPCCar constructor (npc_car.js:5-21).
NPCCarInit ==
    theNPCCar = [active |-> TRUE, exploded |-> FALSE, life |-> 0,
                 debris |-> 0, debrisAge |-> 0, inScene |-> TRUE,
                 removals |-> 0]

\* NPCCar.destroy() (npc_car.js:118-127).
NPCCar_destroy(o) ==
    IF ~o.active THEN o
    ELSE [o EXCEPT !.active = FALSE, !.removals = @ + 1, !.inScene = FALSE,
                   !.debris = 0]

\* NPCCar.explode() (npc_car.js:55-72).
NPCCar_explode(o) ==
    IF o.exploded \/ ~o.active THEN o
    ELSE [o EXCEPT !.exploded = TRUE, !.debris = NPCCarPieces,
                   !.debrisAge = 0, !.removals = @ + 1]

\* NPCCar._updateDebris(dt) (npc_car.js:74-94): the pieces were pushed
\* together and age together.
NPCCar_updateDebris(o, dt) ==
    IF o.debris = 0 THEN o
    ELSE LET age == o.debrisAge + dt
         IN IF age > debrisLifetime
            THEN [o EXCEPT !.debris = 0, !.debrisAge = 0]
            ELSE [o EXCEPT !.debrisAge = age]

\* NPCCar.update(dt) (npc_car.js:96-116).
NPCCar_update(o, dt) ==
    IF ~o.active THEN o
    ELSE IF o.exploded
    THEN LET d == NPCCar_updateDebris(o, dt)
         IN IF d.debris = 0 THEN NPCCar_destroy(d) ELSE d
    ELSE LET l == [o EXCEPT !.life = @ + dt]
         IN IF l.life > maxLifeTime THEN NPCCar_destroy(l) ELSE l

\* The host calls a method of the NPCCar.
NPCCarCall(o) ==
    /\ theNPCCar' = o
    /\ UNCHANGED <<roadVars, playerZ, npcVars, physVars, driveVars,
                   npcTicked, lastExplode, now, flight, lastRender, coinVars,
                   lastHand, foreignVars, gameVars>>

NPCCarExplodes == NPCCarCall(NPCCar_explode(theNPCCar))

NPCCarUpdates == \E dt \in NPCCarDeltas : NPCCarCall(NPCCar_update(theNPCCar, dt))

NPCCarDestroyed == NPCCarCall(NPCCar_destroy(theNPCCar))

NPCCarNext ==
    \/ NPCCarExplodes
    \/ NPCCarUpdates
    \/ NPCCarDestroyed

-----------------------------------------------------------------------------
(* The Game of part_001 and the handlers that start it.  game.sessions      *)
(* counts the WorldManager/PhysicsManager pairs constructed, game.pending   *)
(* the init() calls waiting in `await this.physicsManager.init(...)`,       *)
(* game.loops the requestAnimationFrame chains that are active.             *)

\* Game.init() calls in one behaviour.
MaxInits == 3

\* Frames counted in one behaviour.
MaxFrames == 6

\* new Game() and the DOMContentLoaded handler up to the first poll
\* (part_001:11-18, 86-92).
GameInit ==
    /\ game = [isInitialized |-> FALSE, sessions |-> 0, pending |-> 0,
               loops |-> 0, frames |-> 0]
    /\ screens = [start |-> TRUE, game |-> FALSE, end |-> FALSE,
                  poll |-> TRUE]

\* Game.init() up to its await (part_001:20-24): new managers replace the
\* ones of the object; nothing of an earlier session is stopped.
Game_init(g) == [g EXCEPT !.sessions = @ + 1, !.pending = @ + 1]

\* pollThumbsUpToStart (part_001:49-62), run by the handler or its timer.
PollThumbsUp(thumb) ==
    /\ screens.poll
    /\ IF screens.start /\ ~screens.game
       THEN IF thumb
            THEN /\ game.sessions < MaxInits
                 /\ screens' = [screens EXCEPT !.start = FALSE,
                                               !.game = TRUE, !.poll = FALSE]
                 /\ game' = Game_init(game)
            ELSE UNCHANGED <<game, screens>>
       ELSE /\ screens' = [screens EXCEPT !.poll = FALSE]
            /\ game' = game
    /\ UNCHANGED <<roadVars, playerZ, npcVars, physVars, driveVars,
                   npcTicked, lastExplode, now, flight, lastRender, coinVars,
                   lastHand, foreignVars, theNPCCar>>

\* The click handlers of the start and the restart button (part_001:96-112).
\* The start button is on the start screen; what displays the end screen
\* is not in this file, so the restart button may be clicked at any time.
Click(button) ==
    /\ game.sessions < MaxInits
    /\ button = "start" => screens.start
    /\ screens' = IF button = "start"
                  THEN [screens EXCEPT !.start = FALSE, !.game = TRUE]
                  ELSE [screens EXCEPT !.end = FALSE, !.game = TRUE]
    /\ game' = Game_init(game)
    /\ UNCHANGED <<roadVars, playerZ, npcVars, physVars, driveVars,
                   npcTicked, lastExplode, now, flight, lastRender, coinVars,
                   lastHand, foreignVars, theNPCCar>>

\* The await of an init() call completes (part_001:24-32).  When it did not
\* throw, isInitialized is set and animate() is called: it runs one frame
\* and requests the next, which starts a chain of frames.
InitResolves(ok) ==
    /\ game.pending > 0
    /\ game.frames < MaxFrames
    /\ game' = IF ok
               THEN [game EXCEPT !.pending = @ - 1, !.isInitialized = TRUE,
                                 !.loops = @ + 1, !.frames = @ + 1]
               ELSE [game EXCEPT !.pending = @ - 1]
    /\ UNCHANGED <<screens, roadVars, playerZ, npcVars, physVars, driveVars,
                   npcTicked, lastExplode, now, flight, lastRender, coinVars,
                   lastHand, foreignVars, theNPCCar>>

\* A requested frame of one chain runs Game.animate (part_001:35-46):
\* isInitialized is never reset, so the chain requests its next frame.
Animate ==
    /\ game.loops > 0
    /\ game.isInitialized
    /\ game.frames < MaxFrames
    /\ game' = [game EXCEPT !.frames = @ + 1]
    /\ UNCHANGED <<screens, roadVars, playerZ, npcVars, physVars, driveVars,
                   npcTicked, lastExplode, now, flight, lastRender, coinVars,
                   lastHand, foreignVars, theNPCCar>>

GameNext ==
    \/ \E thumb \in BOOLEAN : PollThumbsUp(thumb)
    \/ \E button \in {"start", "restart"} : Click(button)
    \/ \E ok \in BOOLEAN : InitResolves(ok)
    \/ Animate

-----------------------------------------------------------------------------
(* Specifications *)

Init ==
    /\ RoadInit /\ NpcInit /\ PhysInit /\ DriveInit /\ CoinInit
    /\ ForeignInit /\ NPCCarInit /\ GameInit

SpecRoad == Init /\ [][RoadNext]_vars

RoadFaultNext ==
    \/ RoadNext
    \/ SchematicFails

SpecCoins == Init /\ [][CoinNext]_vars

SpecRender == Init /\ [][RenderNext]_vars

SpecRoadFault == Init /\ [][RoadFaultNext]_vars

SpecInput == Init /\ [][InputNext]_vars

SpecForeign == Init /\ [][ForeignNext]_vars

SpecNPCCar == Init /\ [][NPCCarNext]_vars

SpecGame == Init /\ [][GameNext]_vars

SpecDrive == Init /\ [][DriveNext]_vars

SpecFlight == Init /\ [][FlightNext]_vars

SpecLifecycle == Init /\ [][LifecycleNext]_vars

SpecAnimate == Init /\ [][AnimateNext]_vars

SpecNpc == Init /\ [][NpcNext]_vars

SpecClock == Init /\ [][ClockNext]_vars

\* Frames keep coming, a started update runs to its end and a due timer fires.
SpecCrash ==
    /\ Init
    /\ [][CrashNext]_vars
    /\ WF_vars(CrashFrame) /\ WF_vars(CrashStep) /\ WF_vars(UpdateEnd)
    /\ WF_vars(ResetFires)

SpecExplode == Init /\ [][ExplodeNext]_vars

SpecLaunch ==
    /\ Init
    /\ [][LaunchNext]_vars
    /\ WF_vars(CrashFrame) /\ WF_vars(LaunchStep) /\ WF_vars(UpdateEnd)
    /\ WF_vars(ResetFires)

-----------------------------------------------------------------------------
(* Claims about the road streamer *)

\* C1: z strictly decreases from every waypoint of roadSegments to the next,
\* after any sequence of generateNewRoadSegments calls, the fallback path
\* included.
C1_RoadZStrictlyDecreasing ==
    \A i \in 1..(Len(roadSegments) - 1) :
        ZLess(roadSegments[i + 1], roadSegments[i])

\* C2: no segment key is built twice: every key of generatedSegments has
\* exactly one set of artifacts, and a call of addCurvyRoadSegment whose key
\* is already present changes no state.
C2_SegmentBuiltOnce ==
    /\ \A i, j \in 1..Len(builds) : builds[i].key = builds[j].key => i = j
    /\ {builds[i].key : i \in 1..Len(builds)} = generatedSegments
    /\ lastAdd.present => ~lastAdd.changed

\* C2 witness: the builder was called with a key that was already present.
C2_Witness == lastAdd.present /\ lastAdd.key \in generatedSegments

-----------------------------------------------------------------------------
(* Claims about repeated and failing generation, the spawn without road,  *)
(* the inputs and grip of the car, the NPC lifecycle and the frame         *)

\* C12: a call of generateNewRoadSegments that repeats the seed pose and the
\* random walk of the call before it finds its segment key present and
\* builds nothing: generatedSegments and the artifacts are unchanged.
C12_RepeatedGenerationIsNoOp ==
    lastGen.repeat => (lastGen.keyPresent /\ ~lastGen.changed)

\* C13: after a call of generateNewRoadSegments in which schematic generation
\* failed, the call has appended exactly one waypoint and changed nothing
\* else of the streamer, and that waypoint has x = 0, heading 0 and a finite
\* z below the player's z.
C13_FallbackWaypoint ==
    lastGen.failed =>
        /\ lastGen.fallbackOnly
        /\ LET w == roadSegments[Len(roadSegments)]
           IN w.x = 0 /\ w.angle = 0 /\ ~w.nan /\ w.z < playerZ

\* C14: a due call of trySpawnNpc that finds no road basis at the spawn z
\* still places an NPC.
C14_SpawnWithoutRoadContext ==
    spawnOutcome = "noRoad" => spawnPlaced >= 1

\* C15: in _applyInputForces an analog value that is not null alone gives
\* the input, the throttle clamped to [0, 1] and the steering to [-1, 1],
\* whatever the digital flags are; the flags give the input only while the
\* analog value is null.
C15_AnalogOverridesDigital ==
    lastForces.applied =>
        /\ analog.throttle # Null =>
              LET v == analog.throttle[1]
              IN lastForces.throttleInput =
                     IF v < 0 THEN 0 ELSE IF v > 10 THEN 10 ELSE v
        /\ analog.steering # Null =>
              LET v == analog.steering[1]
              IN lastForces.steerInput =
                     IF v < -10 THEN -10 ELSE IF v > 10 THEN 10 ELSE v
        /\ analog.throttle = Null =>
              lastForces.throttleInput =
                  (IF controls.forward THEN 10 ELSE 0)
                      - (IF controls.backward THEN 10 ELSE 0)
        /\ analog.steering = Null =>
              lastForces.steerInput =
                  (IF controls.left THEN 10 ELSE 0)
                      - (IF controls.right THEN 10 ELSE 0)

\* An analog throttle above the range was clamped to 1 while the backward
\* key was down, and an analog steering below the range to -1 with the left
\* key down.
C15_Witness ==
    /\ lastForces.applied
    /\ analog.throttle = <<15>> /\ controls.backward
    /\ lastForces.throttleInput = 10
    /\ analog.steering = <<-15>> /\ controls.left
    /\ lastForces.steerInput = -10

C16_NpcLifecycleMoves ==
    \A m \in lastMoves :
        /\ m[2] = "Launched" => m[3] \in {"Launched", "Removed"}
        /\ m[2] = "Removed" => m[3] = "Removed"
        /\ m[2] = "Cruising" => m[3] \in {"Cruising", "Launched", "Removed"}

\* launch() was called on a disposed NpcCar that had never been launched,
\* while the list of WorldManager holds a record that is flying away.
C16_Witness ==
    /\ lastMoves = {<<"launch", "Removed", "Removed">>}
    /\ npcCar.launched
    /\ \E i \in 1..Len(npcCars) : npcCars[i].hit

\* C18: every fixed step consumed by PhysicsManager.update has stepped the
\* physics world, whether the car is exploded or not.
C18_WorldSteppedEveryStep ==
    lastStep.dt = FIXED_TIMESTEP => lastStep.stepped

\* C19: when a frame of Game.animate in which at least one fixed step ran
\* has rendered, the NPC lifecycle tick of updateNpcCars has executed in
\* that frame.
C19_NpcTickEveryFrame ==
    (pc = "idle" /\ frame.steps >= 1) => npcTicked

\* C20: a segment cut by generateNewRoadSegments after an earlier one begins
\* with the last point of that earlier segment as it was built: same x and
\* same z.
C20_SegmentsShareEndPoint ==
    lastCut.joined =>
        /\ lastCut.first.x = lastCut.prevLast.x
        /\ ZEq(lastCut.first, lastCut.prevLast)

-----------------------------------------------------------------------------
(* Claims about the NPC traffic *)

\* C3: the length of npcCars never exceeds npcMaxCount.
C3_NpcCountCapped == Len(npcCars) <= npcMaxCount

\* C3 witness: the list is full and the last trySpawnNpc call returned at the
\* npcMaxCount check.
C3_Witness == Len(npcCars) = npcMaxCount /\ spawnOutcome = "capped"

\* C4: a hit NPC does not stay in npcCars once the update time accumulated
\* since the hit has reached its flyDuration.
C4_HitNpcRemovedInTime ==
    \A i \in 1..Len(npcCars) :
        npcCars[i].hit => npcCars[i].sinceHit < npcCars[i].flyDuration

-----------------------------------------------------------------------------
(* Claims about PhysicsManager and the Car *)

\* C5: every registered NPC is launched at most once, and carHitCallback has
\* been invoked exactly once per launch: never without a launch.
C5_LaunchedOnceCallbackOnce ==
    \A n \in NpcIds :
        /\ pmNpcs[n].launches <= 1
        /\ pmNpcs[n].callbacks = pmNpcs[n].launches

\* C6: after every fixed step car.position.y and the y of the body are >= 0,
\* and after a step in which the clamp fired the vertical velocity of the
\* body is >= 0.
C6_VehicleNotBelowGround ==
    /\ car.y >= 0
    /\ body.y >= 0
    /\ lastStep.clamped => body.vy >= 0

\* C6 witness: the world step left the car below the ground, falling, and
\* the clamp put it on the ground.
C6_Witness ==
    /\ lastStep.stepped /\ lastStep.clamped
    /\ lastStep.rawY < 0 /\ lastStep.rawVy < 0
    /\ car.y = 0 /\ body.y = 0 /\ body.vy = 0

\* C7: every dynamic body made for a debris or launch effect leaves the
\* physics world again, under continued frames: the debris bodies of an
\* explosion, and the dynamic body that replaces the body of a launched NPC.
C7_EffectBodiesRemoved ==
    /\ (worldDebris > 0) ~> (worldDebris = 0)
    /\ (\E n \in NpcIds : pmNpcs[n].body = "dynamic")
           ~> (\A n \in NpcIds : pmNpcs[n].body # "dynamic")

\* C8: an exploded car returns to normal, and whenever the car is not
\* exploded its debris list is empty and no debris body is in the world.
C8_ExplosionEndsInReset ==
    /\ [](~car.exploded => (car.debris = 0 /\ worldDebris = 0))
    /\ car.exploded ~> ~car.exploded

\* C8 witness: the reset timer of an explosion has fired: the car is normal
\* again and its debris is gone.
C8_Witness == justReset /\ ~car.exploded /\ car.debris = 0 /\ worldDebris = 0

\* C9: when resetAfterExplosion has run, the body is at the origin pose: at
\* the fixed reset position, at rest, not rotated.
C9_ResetRestoresOriginPose ==
    justReset => body = [StartBody EXCEPT !.y = 1]

\* The position of a call in a trace, 0 when the trace does not hold it.
PosIn(trace, name) ==
    IF \E i \in 1..Len(trace) : trace[i] = name
    THEN CHOOSE i \in 1..Len(trace) : trace[i] = name
    ELSE 0

C21_ExplodeOnce ==
    /\ car.debris <= DebrisCount
    /\ worldDebris = car.debris
    /\ car.timers <= 1
    /\ car.exploded => (car.debris = DebrisCount /\ car.timers = 1)
    /\ (resetTimer >= 0) = (car.timers = 1)

\* explode() was called directly on a car that a collision had exploded
\* some fixed steps before.
C21_Witness ==
    /\ lastExplode = "exploded"
    /\ car.exploded /\ car.debris = DebrisCount /\ car.timers = 1
    /\ resetTimer < ResetDelay
    /\ ~lastStep.stepped


\* C22: an NpcCar on which launch() took effect is disposed (body out of
\* the world, group out of the scene) by the first update() made 4500 ms
\* or more after the launch, or earlier by the first update() that finds
\* its body out of bounds; launch() on a launched NpcCar changes nothing
\* and leaves the deadline where the first launch put it.
C22_LaunchedIsDisposedInTime ==
    /\ \A mv \in lastMoves :
          (/\ mv[1] = "update"
           /\ mv[2] = "Launched"
           /\ (now >= flight.launchedAt + CleanupDelay \/ flight.lastOut))
          => (/\ mv[3] = "Removed"
              /\ npcCar.body = "none"
              /\ ~npcCar.inScene)
    /\ \A mv \in lastMoves :
          (mv[1] = "launch" /\ mv[2] = "Launched") => mv[3] = "Launched"
    /\ npcCar.launched => npcCar.cleanupAt = flight.launchedAt + CleanupDelay

\* An update() at the deadline, with the body in bounds, of an NpcCar
\* launched when the clock had already advanced, disposed it.
C22_Witness ==
    /\ lastMoves = {<<"update", "Launched", "Removed">>}
    /\ ~flight.lastOut
    /\ flight.launchedAt > 1
    /\ now = flight.launchedAt + CleanupDelay
    /\ npcCar.body = "none"


\* C23: WorldManager.render calls generateNewRoadSegments at most once in
\* a frame, and only when player.z < lastRoad.z + 400; as long as no
\* generation has failed and the player advances less than 400 units a
\* frame, lastRoad.z < player.z at the end of every frame; and a call by
\* render that did not fail leaves lastGeneratedSegmentCount equal to
\* roadSegments.length.
C23_RenderKeepsRoadAhead ==
    lastRender.ran =>
        /\ lastRender.calls <= 1
        /\ lastRender.calls = 1 => lastRender.z < lastRender.roadZ + Lookahead
        /\ ~lastRender.everFailed => lastRoad.z < playerZ
        /\ (lastRender.calls = 1 /\ ~lastRender.failed)
           => lastGeneratedSegmentCount = Len(roadSegments)

\* A frame past the first, with no failure so far, in which the player
\* came close to the end of the road and render extended the road.
C23_Witness ==
    /\ lastRender.ran
    /\ lastRender.calls = 1
    /\ ~lastRender.everFailed
    /\ lastRender.roadZ < 0
    /\ lastRender.z < lastRender.roadZ + 10 * 90
    /\ lastRoad.z < playerZ
    /\ lastGeneratedSegmentCount = Len(roadSegments)


\* C24: a coin adds to coinsCollected at most once: the updateCoins call
\* that first finds it uncollected within the collect radius marks it,
\* adds exactly 1 for it and posts one popup for it; a collected coin stays
\* collected and adds nothing in later calls, also when the array is
\* filtered; coinsCollected is the number of coins ever collected.
C24_CoinCountedOnce ==
    /\ coinsCollected = coins.taken + coins.pruned
                         + (IF coins.tracked \in {"taken", "pruned"}
                            THEN 1 ELSE 0)
    /\ lastCoins.ran =>
          /\ lastCoins.popups = lastCoins.delta
          /\ (lastCoins.before = "loose" /\ lastCoins.near)
             => (/\ coins.tracked \in {"taken", "pruned"}
                 /\ lastCoins.delta = lastCoins.hits + 1)
          /\ (lastCoins.before = "loose" /\ ~lastCoins.near)
             => (coins.tracked = "loose" /\ lastCoins.delta = lastCoins.hits)
          /\ lastCoins.before \in {"taken", "pruned"}
             => (/\ coins.tracked \in {"taken", "pruned"}
                 /\ lastCoins.delta = lastCoins.hits)

\* The car was again within the radius of the followed coin, collected in
\* an earlier frame, in the frame in which the array was filtered.
C24_Witness ==
    /\ lastCoins.ran
    /\ lastCoins.before = "taken"
    /\ lastCoins.near
    /\ lastCoins.pruned
    /\ coins.tracked = "pruned"
    /\ lastCoins.hits = 2
    /\ coinsCollected > 2


\* C25: a fixed step of PhysicsManager.update taken while the player car
\* is exploded launches no NPC and invokes no carHitCallback.
C25_NoLaunchWhileExploded ==
    lastStep.wrecked => (lastStep.launched = {} /\ lastStep.called = 0)


\* C26: in a fixed step in which getLatestHandData returns null or a
\* record without theta or r, the digital flags give the throttle and the
\* steering: analog values of an earlier step are not in force.
C26_DigitalWithoutHand ==
    (lastForces.applied /\ lastHand \in {"null", "partial"}) =>
        /\ lastForces.throttleInput =
               (IF controls.forward THEN 10 ELSE 0)
                   - (IF controls.backward THEN 10 ELSE 0)
        /\ lastForces.steerInput =
               (IF controls.left THEN 10 ELSE 0)
                   - (IF controls.right THEN 10 ELSE 0)


\* C27: every entry of _foreignDebris refers to a rigid body that is in
\* the physics world: a body of the pool leaves the world only in the
\* expiry sweep, which also drops its entry, and not through a contact of
\* the player with a piece.
C27_PoolBodiesInWorld ==
    \A k \in 1..Len(foreignDebris) : foreignDebris[k].dead = 0


\* C28: for any sequence of explode(), update(dt) and destroy() calls on
\* an NPCCar, world.removeRigidBody is called at most once for its body.
C28_BodyRemovedOnce ==
    theNPCCar.removals <= 1


\* C29: an update(delta) of an NpcCar made after its dispose() is a no-op:
\* it does not throw, and the body stays out of the world and the group out
\* of the scene.
C29_UpdateAfterDisposeIsSafe ==
    \A mv \in lastMoves :
        (mv[1] = "update" /\ mv[2] = "Removed")
        => (/\ ~flight.threw
            /\ npcCar.body = "none"
            /\ ~npcCar.inScene)


\* C30: a Game has at most one active chain of requested frames at any
\* time; a further Game.init() does not leave the chain of the earlier
\* session running beside its own.
C30_OneFrameLoop ==
    game.loops <= 1

=============================================================================
